---- MODULE Spec2Model ----
(***************************************************************************)
(* A model of the debate-based synthesis pipeline (src/src/main.py and     *)
(* src/src/core/*.py): the concurrent dispatcher, the critic evaluator,    *)
(* the debate round with agreement folding, the gated state machine of     *)
(* run_debate_pipeline, the two synthesizers and the run-record logger.    *)
(*                                                                         *)
(* Python values are represented as follows.  A str is a TLA+ string; the  *)
(* f-strings of the code are string concatenations.  None is the string    *)
(* NoneValue.  A dict is the sequence of its <<key, value>> pairs in       *)
(* insertion order.  A list is a sequence.  A claim text and a claim_id    *)
(* are sequences of one-character strings, so that the slug derivation can *)
(* be computed character by character.                                     *)
(***************************************************************************)
EXTENDS Integers, Sequences, FiniteSets, TLC

VARIABLES
    pc,                  \* position of the run inside run_debate_pipeline
    env,                 \* the outcomes the Gateway may produce for a model call
    fault_budget,        \* how many more model calls may end other than Ok(text)
    latency,             \* model -> how long its call takes (0: time is not followed)
    clock,               \* the time: elapsed since the gather started, or datetime.now()
    recording,           \* whether the order of completion is kept in completion
    completion,          \* the models whose calls have settled, in completion order
    calls,               \* the calls of the asyncio.gather in flight: model -> call
    results,             \* run_debate_round: the gathered results, in DEBATE_MODELS order
    output,              \* run_debate_round: the dict under construction
    idx,                 \* run_debate_round: index of the normalisation loop
    initial_responses,   \* main.py local
    debate_responses_1,  \* main.py local
    debate_responses_2,  \* main.py local
    critic_eval_0,       \* main.py local
    critic_eval_1,       \* main.py local
    critic_eval_2,       \* main.py local
    initial_count,       \* main.py local
    current_count,       \* main.py local
    final_answer,        \* main.py local
    logger,              \* the DebateLogger of the run
    trace,               \* history: what the run has invoked so far
    runs,                \* the pipeline runs of one process, when several are followed
    disk                 \* the folders under the log directory: folder -> file -> content

vars == <<pc, env, fault_budget, latency, clock, recording, completion, calls, results, output, idx,
          initial_responses, debate_responses_1, debate_responses_2,
          critic_eval_0, critic_eval_1, critic_eval_2,
          initial_count, current_count, final_answer, logger, trace, runs, disk>>

-----------------------------------------------------------------------------
(* Bounds of the model *)

\* the longest discrepancy list the critic's analysis returns
MaxDisc == 2

\* how many model calls of one run (dispatch and re-prompts) may fail
MaxFaults == 1

\* the longest a model call takes, in ticks of the clock
MaxLatency == 3

\* the longest discrepancy list the analysis returns when evaluate_differences
\* is taken on its own
MaxEvalDisc == 2

-----------------------------------------------------------------------------
(* Python values *)

NoneValue == "<None>"

\* str(x) for x a str or None
Str(x) == IF x = NoneValue THEN "None" ELSE x

Range(s) == {s[i] : i \in 1..Len(s)}

\* dict.get(key, default) on a dict kept as a sequence of <<key, value>>
DictGet(d, key, default) ==
    IF \E i \in 1..Len(d) : d[i][1] = key
    THEN d[CHOOSE i \in 1..Len(d) : d[i][1] = key][2]
    ELSE default

\* d[key] = value: an existing key keeps its position, a new one is appended
DictSet(d, key, value) ==
    IF \E i \in 1..Len(d) : d[i][1] = key
    THEN [i \in 1..Len(d) |-> IF d[i][1] = key THEN <<key, value>> ELSE d[i]]
    ELSE Append(d, <<key, value>>)

DictKeys(d) == [i \in 1..Len(d) |-> d[i][1]]

-----------------------------------------------------------------------------
(* The Model Gateway: the results of fetch_llm_response *)

INITIAL_MODELS ==
    <<"google/gemini-2.5-flash-lite", "anthropic/claude-3-haiku", "openai/gpt-4o-mini">>

DEBATE_MODELS ==
    <<"google/gemini-2.5-flash-lite", "anthropic/claude-3-haiku", "openai/gpt-4o-mini">>

Models == Range(INITIAL_MODELS)

\* {"ok": True, "model": model, "content": content}
OkResult(content) ==
    [exc |-> FALSE, ok |-> TRUE, content |-> content, type |-> "", error |-> ""]

\* {"ok": False, "model": model, "type": type, "error": error}
FailedResult(type, error) ==
    [exc |-> FALSE, ok |-> FALSE, content |-> NoneValue, type |-> type, error |-> error]

\* an exception that fetch_llm_response does not catch; error is str(exception)
RaisedResult(error) ==
    [exc |-> TRUE, ok |-> FALSE, content |-> NoneValue, type |-> "", error |-> error]

\* the four except clauses of fetch_llm_response and the message each one builds
GatewayFailures ==
    { FailedResult("timeout", "Request timed out after 30 seconds."),
      FailedResult("http_error", "HTTP 500: upstream"),
      FailedResult("request_error", "connection refused"),
      FailedResult("parse_error", "Malformed response payload: 'choices'") }

GatewayExceptions == { RaisedResult("InvalidURL") }

\* the text a model answers with at stage 0 (dispatch), 1 and 2 (re-prompts)
AnswerText(stage) ==
    CASE stage = 0 -> "answer0" [] stage = 1 -> "answer1" [] OTHER -> "answer2"

\* a call that does not answer: a typed failure or an exception
GatewayFaults == GatewayFailures \cup GatewayExceptions

\* every outcome of a model call other than an answer text
FullEnv == GatewayFaults \cup {OkResult(NoneValue)}

\* the outcome the pipeline runs draw their failing model calls from
PipelineEnv == { FailedResult("timeout", "Request timed out after 30 seconds.") }

\* the ways the synthesis call of a pipeline run fails
SynthesisFaults == GatewayFaults

-----------------------------------------------------------------------------
(* The Dispatcher: run_initial_models *)

\* f"ERROR ({kind}): {message}"
ErrorString(kind, message) == "ERROR (" \o kind \o "): " \o message

\* NormalizeResult without the isinstance(result, BaseException) branch
NormalizeResultNoExceptionBranch(result) ==
    IF result.ok THEN Str(result.content)
    ELSE ErrorString(IF result.exc THEN "unknown" ELSE result.type,
                     IF result.exc THEN "Unknown error" ELSE result.error)

\* the body of the normalisation loop for one gathered result
NormalizeResult(result) ==
    IF result.exc THEN ErrorString("exception", result.error)
    ELSE IF result.ok THEN Str(result.content)
    ELSE ErrorString(result.type, result.error)

RECURSIVE NormalizeFrom(_, _, _, _)
NormalizeFrom(models, res, i, out) ==
    IF i > Len(models) \/ i > Len(res) THEN out
    ELSE NormalizeFrom(models, res, i + 1,
                       DictSet(out, models[i], NormalizeResult(res[i])))

\* output = {}; for model, result in zip(INITIAL_MODELS, results): ...
NormalizeAll(models, res) == NormalizeFrom(models, res, 1, <<>>)

\* gather without return_exceptions=True: the first exception ends the wait
GatherDoneAtFirstException(cs) ==
    \/ \A m \in DOMAIN cs : cs[m].status = "settled"
    \/ \E m \in DOMAIN cs : cs[m].status = "settled" /\ cs[m].result.exc

\* asyncio.gather(..., return_exceptions=True) is done when every call has settled
GatherDone(cs) == \A m \in DOMAIN cs : cs[m].status = "settled"

\* the results in the order the calls completed, as asyncio.as_completed yields them
GatherResultsAsCompleted(models, cs) ==
    [i \in 1..Len(models) |-> cs[completion[i]].result]

\* the results of gather, in the order of the awaitables passed to it
GatherResults(models, cs) == [i \in 1..Len(models) |-> cs[models[i]].result]

NoCalls == [m \in {} |-> 0]

RECURSIVE LatencyBefore(_, _)
\* the time the calls of the models before the i-th take one after the other
LatencyBefore(models, i) ==
    IF i <= 1 THEN 0 ELSE LatencyBefore(models, i - 1) + latency[models[i - 1]]

\* the calls awaited one after the other: each starts when the one before ends
PendingCallsSequential(models) ==
    [m \in Range(models) |->
        [status |-> "pending", result |-> OkResult(NoneValue),
         start |-> clock + LatencyBefore(models,
                                         CHOOSE i \in 1..Len(models) : models[i] = m)]]

\* the tasks handed to gather: every call starts when gather is called
PendingCalls(models) ==
    [m \in Range(models) |->
        [status |-> "pending", result |-> OkResult(NoneValue), start |-> clock]]

-----------------------------------------------------------------------------
(* The Discrepancy Evaluator: schemas.py and critic.py *)

\* Discrepancy (schemas.py); claim_id and confidence default to None
Discrepancy(claim_id, claim, with, missing) ==
    [claim_id |-> claim_id, claim |-> claim, models_with_claim |-> with,
     models_missing_claim |-> missing, confidence |-> NoneValue]

\* CriticEvaluation (schemas.py)
CriticEvaluation(consensus_reached, discrepancies) ==
    [consensus_reached |-> consensus_reached, discrepancies |-> discrepancies]

\* the value of an evaluation variable that has not been assigned yet
NoEval == [consensus_reached |-> FALSE, discrepancies |-> <<>>, unset |-> TRUE]

\* claim_id = None
NoneId == <<NoneValue>>

\* Python truthiness of an Optional[str]: None and "" are falsy
Falsy(s) == s = NoneId \/ s = <<>>

ClaimIdMaxLen == 40

\* the characters of the model's texts, in code-point order
Alphabet ==
    <<"\t", "\n", " ", "!", "-", "0", "1", "A", "B", "C", "E", "R", "T", "U", "_",
      "a", "b", "c", "e", "f", "l", "r", "s", "t", "u">>

CharCode(c) == CHOOSE i \in 1..Len(Alphabet) : Alphabet[i] = c

\* str.lower() on one character
Lower(c) ==
    CASE c = "A" -> "a" [] c = "B" -> "b" [] c = "C" -> "c" [] c = "E" -> "e"
      [] c = "R" -> "r" [] c = "T" -> "t" [] c = "U" -> "u" [] OTHER -> c

\* \w
IsWordChar(c) ==
    c \in {"0", "1", "A", "B", "C", "E", "R", "T", "U", "_",
           "a", "b", "c", "e", "f", "l", "r", "s", "t", "u"}

\* \s
IsSpace(c) == c \in {" ", "\t", "\n"}

\* re.sub(r"[^\w\s-]", "", claim_text.lower())
RemovePunctuation(s) ==
    SelectSeq([i \in 1..Len(s) |-> Lower(s[i])],
              LAMBDA c : IsWordChar(c) \/ IsSpace(c) \/ c = "-")

RECURSIVE HyphenateFrom(_, _, _)
HyphenateFrom(s, i, out) ==
    IF i > Len(s) THEN out
    ELSE IF IsSpace(s[i])
         THEN IF i > 1 /\ IsSpace(s[i - 1])
              THEN HyphenateFrom(s, i + 1, out)
              ELSE HyphenateFrom(s, i + 1, Append(out, "-"))
         ELSE HyphenateFrom(s, i + 1, Append(out, s[i]))

\* re.sub(r"\s+", "-", s)
Hyphenate(s) == HyphenateFrom(s, 1, <<>>)

RECURSIVE StripHyphens(_)
\* s.strip("-")
StripHyphens(s) ==
    IF s = <<>> THEN s
    ELSE IF Head(s) = "-" THEN StripHyphens(Tail(s))
    ELSE IF s[Len(s)] = "-" THEN StripHyphens(SubSeq(s, 1, Len(s) - 1))
    ELSE s

\* s[:max_len]
Truncate(s, max_len) == SubSeq(s, 1, IF Len(s) < max_len THEN Len(s) ELSE max_len)

_generate_claim_id(claim_text) ==
    StripHyphens(Truncate(Hyphenate(RemovePunctuation(claim_text)), ClaimIdMaxLen))

\* The text the critic model answers with: JSON of the CriticEvaluation shape
\* ("json"), the same inside a markdown code fence ("fenced"), text that is not
\* JSON of that shape ("invalid"), or a null content ("none").
CriticContent(form, value) == [form |-> form, value |-> value]

_strip_markdown_fences(content) ==
    IF content.form = "fenced" THEN [content EXCEPT !.form = "json"] ELSE content

\* the filter taken on models_with_claim instead
ValidDiscrepanciesByHolders(discrepancies) ==
    SelectSeq(discrepancies, LAMBDA d : d.models_with_claim # <<>>)

\* valid_discrepancies = [d for d in evaluation.discrepancies if d.models_missing_claim]
ValidDiscrepancies(discrepancies) ==
    SelectSeq(discrepancies, LAMBDA d : d.models_missing_claim # <<>>)

\* claim ids derived from the claim text and the position in the list
WithClaimIdsByPosition(discrepancies) ==
    [i \in 1..Len(discrepancies) |->
        IF Falsy(discrepancies[i].claim_id)
        THEN [discrepancies[i] EXCEPT
                 !.claim_id = _generate_claim_id(discrepancies[i].claim)
                              \o <<"-", ToString(i)>>]
        ELSE discrepancies[i]]

\* for disc in evaluation.discrepancies: if not disc.claim_id: disc.claim_id = ...
WithClaimIds(discrepancies) ==
    [i \in 1..Len(discrepancies) |->
        IF Falsy(discrepancies[i].claim_id)
        THEN [discrepancies[i] EXCEPT !.claim_id = _generate_claim_id(discrepancies[i].claim)]
        ELSE discrepancies[i]]

\* the post-processing without the consensus enforcement
PostProcessKeepsVerdict(evaluation) ==
    LET valid == ValidDiscrepancies(evaluation.discrepancies)
    IN  CriticEvaluation(evaluation.consensus_reached, WithClaimIds(valid))

\* the post-processing of a parsed evaluation (critic.py 159-174)
PostProcess(evaluation) ==
    LET valid == ValidDiscrepancies(evaluation.discrepancies)
    IN  IF valid = <<>>
        THEN CriticEvaluation(TRUE, <<>>)
        ELSE CriticEvaluation(evaluation.consensus_reached, WithClaimIds(valid))

\* evaluate_differences, given the result of its one critic call; raised is
\* TRUE when an exception leaves the function
evaluate_differences(result) ==
    IF result.exc
    THEN [raised |-> TRUE, evaluation |-> NoEval]
    ELSE IF ~result.ok
    THEN [raised |-> FALSE, evaluation |-> CriticEvaluation(TRUE, <<>>)]
    ELSE IF result.content.form = "none"
    THEN [raised |-> TRUE, evaluation |-> NoEval]
    ELSE LET cleaned == _strip_markdown_fences(result.content)
         IN  IF cleaned.form = "json"
             THEN [raised |-> FALSE, evaluation |-> PostProcess(cleaned.value)]
             ELSE [raised |-> FALSE, evaluation |-> CriticEvaluation(TRUE, <<>>)]

\* The discrepancies the critic's analysis can report in a pipeline run, and one
\* "discrepancy" that no model misses.
PoolDiscrepancies ==
    << Discrepancy(NoneId, <<"A">>, <<INITIAL_MODELS[1], INITIAL_MODELS[2]>>,
                   <<INITIAL_MODELS[3]>>),
       Discrepancy(NoneId, <<"B", " ", "b">>, <<INITIAL_MODELS[3]>>,
                   <<INITIAL_MODELS[1], INITIAL_MODELS[2]>>),
       Discrepancy(NoneId, <<"C", "!">>, <<INITIAL_MODELS[1]>>,
                   <<INITIAL_MODELS[2], INITIAL_MODELS[3]>>),
       Discrepancy(NoneId, <<"t", "e", "a">>, <<INITIAL_MODELS[2], INITIAL_MODELS[3]>>,
                   <<INITIAL_MODELS[1]>>) >>

UniversalClaim == Discrepancy(NoneId, <<"U">>, INITIAL_MODELS, <<>>)

\* the pool as pass n sees it: pass n reports the discrepancies from the n-th on,
\* so that a pass can both drop discrepancies of the pass before and add new ones
PassPool(n) ==
    [i \in 1..Len(PoolDiscrepancies) |->
        PoolDiscrepancies[((i + n - 1) % Len(PoolDiscrepancies)) + 1]]

\* the discrepancy lists the analysis of pass n reports: up to MaxDisc
\* discrepancies, with or without the universally held claim in front
CriticLists(n) ==
    { SubSeq(PassPool(n), 1, k) : k \in 0..MaxDisc }
    \cup { <<UniversalClaim>> \o SubSeq(PassPool(n), 1, k) : k \in 0..(MaxDisc - 1) }

\* every successful result of the critic call of pass n in a pipeline run
CriticAnswers(n) ==
    { OkResult(CriticContent(form, CriticEvaluation(flag, discs))) :
        form \in {"json", "fenced"}, flag \in BOOLEAN, discs \in CriticLists(n) }
    \cup { OkResult(CriticContent("invalid", CriticEvaluation(FALSE, <<>>))),
           OkResult(CriticContent("none", CriticEvaluation(FALSE, <<>>))) }

-----------------------------------------------------------------------------
(* The agreement check: agreement.py *)

RECURSIVE StripSpace(_)
\* s.strip()
StripSpace(s) ==
    IF s = <<>> THEN s
    ELSE IF IsSpace(Head(s)) THEN StripSpace(Tail(s))
    ELSE IF IsSpace(s[Len(s)]) THEN StripSpace(SubSeq(s, 1, Len(s) - 1))
    ELSE s

LowerAll(s) == [i \in 1..Len(s) |-> Lower(s[i])]

\* is_agreement, given the result of its one classification call (whose content
\* is a sequence of characters, NoneId for a null content); raised is TRUE when
\* an exception leaves the function
is_agreement(result) ==
    IF result.exc THEN [raised |-> TRUE, value |-> FALSE]
    ELSE IF ~result.ok THEN [raised |-> FALSE, value |-> FALSE]
    ELSE IF result.content = NoneId THEN [raised |-> TRUE, value |-> FALSE]
    ELSE [raised |-> FALSE,
          value |-> LowerAll(StripSpace(result.content)) = <<"t", "r", "u", "e">>]

\* every successful result of the classification call
AgreementAnswers ==
    { OkResult(<<"t", "r", "u", "e">>), OkResult(<<" ", "T", "R", "U", "E", "\n">>),
      OkResult(<<"f", "a", "l", "s", "e">>), OkResult(<<"t", "r", "u", "e", "!">>),
      OkResult(NoneId) }

-----------------------------------------------------------------------------
(* The Debate Round Builder: debate.py *)

\* missed_claims collected from the discrepancies the model is listed with
MissedClaimsOfHolders(model, critic_eval) ==
    LET missed == SelectSeq(critic_eval.discrepancies,
                            LAMBDA d : model \in Range(d.models_with_claim))
    IN  [i \in 1..Len(missed) |-> missed[i].claim]

\* missed_claims: the claims of the discrepancies the model is missing from
MissedClaims(model, critic_eval) ==
    LET missed == SelectSeq(critic_eval.discrepancies,
                            LAMBDA d : model \in Range(d.models_missing_claim))
    IN  [i \in 1..Len(missed) |-> missed[i].claim]

\* _build_debate_prompt: which of the two templates, and what is put into it
_build_debate_prompt(model, initial_response, critic_eval) ==
    LET missed_claims == MissedClaims(model, critic_eval)
    IN  IF missed_claims = <<>>
        THEN [template |-> "confirm_or_refine", initial_response |-> initial_response,
              claims |-> <<>>]
        ELSE [template |-> "missed_claims", initial_response |-> initial_response,
              claims |-> missed_claims]

\* the tasks of one round: one re-prompt call per model of DEBATE_MODELS
DebateCalls(prior, critic_eval) ==
    [m \in Range(DEBATE_MODELS) |->
        [status |-> "pending", result |-> OkResult(NoneValue), start |-> clock,
         prompt |-> _build_debate_prompt(m, DictGet(prior, m, ""), critic_eval)]]

\* the entry without folding: the reply text, agreement or not
FoldedEntryKeepsReply(model, content, agreed, prior) == content

\* the entry of a model whose re-prompt succeeded, given is_agreement's answer
FoldedEntry(model, content, agreed, prior) ==
    IF agreed THEN DictGet(prior, model, "") ELSE content

-----------------------------------------------------------------------------
(* The Synthesizer: synthesizer.py *)

\* a synthesizer that lets the failure of its generation call out as an exception
SynthesisAnswerRaisesOnFailure(result) ==
    IF result.ok THEN [raised |-> FALSE, answer |-> Str(result.content)]
    ELSE [raised |-> TRUE, answer |-> NoneValue]

\* generate_final_answer and generate_divergence_synthesis, given the result of
\* their one generation call: the answer, or raised when an exception leaves
SynthesisAnswer(result) ==
    IF result.exc THEN [raised |-> TRUE, answer |-> NoneValue]
    ELSE IF result.ok THEN [raised |-> FALSE, answer |-> Str(result.content)]
    ELSE [raised |-> FALSE, answer |-> ErrorString(result.type, result.error)]

\* every successful result of the generation call
SynthesisAnswers == { OkResult("synthesis"), OkResult(NoneValue) }

-----------------------------------------------------------------------------
(* The run record: logger.py *)

EmptyPass ==
    [logged |-> FALSE, consensus_reached |-> FALSE, discrepancies_count |-> 0,
     discrepancies |-> <<>>, resolved_claims |-> <<>>]

EmptyGate == [logged |-> FALSE, route |-> "", reason |-> ""]

EmptySynthesis == [logged |-> FALSE, mode |-> "", answer |-> ""]

\* DebateLogger.__init__
NewLogger ==
    [critic_pass |-> [n \in 0..2 |-> EmptyPass],
     gate_decision |-> [n \in 0..2 |-> EmptyGate],
     final_synthesis |-> EmptySynthesis,
     initial_responses |-> <<>>,
     debate_round_1_responses |-> <<>>,
     debate_round_2_responses |-> <<>>,
     final_synthesis_data |-> EmptySynthesis,
     files |-> <<>>,
     saves |-> 0]

\* lexicographic order of two texts, by code point
RECURSIVE TextLess(_, _)
TextLess(s, t) ==
    IF t = <<>> THEN FALSE
    ELSE IF s = <<>> THEN TRUE
    ELSE IF Head(s) = Head(t) THEN TextLess(Tail(s), Tail(t))
    ELSE CharCode(Head(s)) < CharCode(Head(t))

RECURSIVE Sorted(_)
\* sorted(list(S))
Sorted(S) ==
    IF S = {} THEN <<>>
    ELSE LET least == CHOOSE x \in S : \A y \in S \ {x} : TextLess(x, y)
         IN  <<least>> \o Sorted(S \ {least})

\* the entry log_critic_pass keeps of one discrepancy
LoggedDiscrepancy(disc) ==
    [claim |-> disc.claim, models_with_claim |-> disc.models_with_claim,
     models_missing_claim |-> disc.models_missing_claim, confidence |-> disc.confidence]

\* resolved_claims of log_critic_pass (and of _display_discrepancies)
ResolvedClaims(pass_num, evaluation, previous_eval) ==
    IF previous_eval # NoEval /\ pass_num > 0
    THEN Sorted({previous_eval.discrepancies[i].claim :
                    i \in 1..Len(previous_eval.discrepancies)}
                 \ {evaluation.discrepancies[i].claim :
                    i \in 1..Len(evaluation.discrepancies)})
    ELSE <<>>

log_critic_pass(lg, pass_num, evaluation, previous_eval) ==
    [lg EXCEPT !.critic_pass[pass_num] =
        [logged |-> TRUE,
         consensus_reached |-> evaluation.consensus_reached,
         discrepancies_count |-> Len(evaluation.discrepancies),
         discrepancies |-> [i \in 1..Len(evaluation.discrepancies) |->
                              LoggedDiscrepancy(evaluation.discrepancies[i])],
         resolved_claims |-> ResolvedClaims(pass_num, evaluation, previous_eval)]]

\* log_gate_decision keeping every decision under gate_0_decision
log_gate_decisionUnderGate0(lg, gate_num, route, reason) ==
    [lg EXCEPT !.gate_decision[0] =
        [logged |-> TRUE, route |-> route, reason |-> reason]]

log_gate_decision(lg, gate_num, route, reason) ==
    [lg EXCEPT !.gate_decision[gate_num] =
        [logged |-> TRUE, route |-> route, reason |-> reason]]

log_initial_responses(lg, responses) == [lg EXCEPT !.initial_responses = responses]

log_debate_round(lg, round_num, responses) ==
    IF round_num = 1 THEN [lg EXCEPT !.debate_round_1_responses = responses]
    ELSE IF round_num = 2 THEN [lg EXCEPT !.debate_round_2_responses = responses]
    ELSE lg

log_final_synthesis(lg, mode, answer) ==
    [lg EXCEPT !.final_synthesis_data = [logged |-> TRUE, mode |-> mode, answer |-> answer],
               !.final_synthesis = [logged |-> TRUE, mode |-> mode, answer |-> answer]]

\* the files save() writes, in the order it opens them
FilesToSave(lg) ==
    <<"flow.json">>
    \o (IF lg.initial_responses # <<>> THEN <<"initial_responses.json">> ELSE <<>>)
    \o (IF lg.debate_round_1_responses # <<>> THEN <<"debate_round_1.json">> ELSE <<>>)
    \o (IF lg.debate_round_2_responses # <<>> THEN <<"debate_round_2.json">> ELSE <<>>)
    \o (IF lg.final_synthesis_data.logged THEN <<"final_synthesis.json">> ELSE <<>>)

\* save() run twice over
saveTwice(lg, writable) ==
    IF writable
    THEN [raised |-> FALSE, logger |-> [lg EXCEPT !.files = FilesToSave(lg), !.saves = @ + 2]]
    ELSE [raised |-> TRUE, logger |-> lg]

\* save(): it writes its files and returns, or the run folder cannot be written
\* and the first open() raises OSError
save(lg, writable) ==
    IF writable
    THEN [raised |-> FALSE, logger |-> [lg EXCEPT !.files = FilesToSave(lg), !.saves = @ + 1]]
    ELSE [raised |-> TRUE, logger |-> lg]

-----------------------------------------------------------------------------
(* The Pipeline State Machine: run_debate_pipeline (main.py) *)

responses_vars == <<initial_responses, debate_responses_1, debate_responses_2>>
eval_vars == <<critic_eval_0, critic_eval_1, critic_eval_2>>
count_vars == <<initial_count, current_count>>
round_vars == <<results, output, idx>>
time_vars == <<latency, clock, recording, completion>>
fleet_vars == <<runs, disk>>
env_vars == <<env, fault_budget, time_vars, fleet_vars>>

NewTrace ==
    [evals |-> <<>>,      \* the calls of evaluate_differences: pass, responses, previous
     rounds |-> <<>>,     \* the calls of run_debate_round: round, prior, evaluation
     synth |-> <<>>,      \* the calls of the synthesizers: mode, responses, evaluation
     gateway |-> 0,       \* the calls of fetch_llm_response issued
     agreed |-> <<>>,     \* the answers of is_agreement: round, model, value
     generation |-> <<>>, \* the results of the synthesizers' generation calls
     events |-> <<>>]     \* the steps of the run, in order

Event(t, e) == [t EXCEPT !.events = Append(@, e)]

PcCritic(n) == "critic_" \o ToString(n)
PcGate(n) == "gate_" \o ToString(n)
PcDebate(r) == "debate_" \o ToString(r)
PcDebateWait(r) == "debate_" \o ToString(r) \o "_wait"
PcDebateLoop(r) == "debate_" \o ToString(r) \o "_loop"

\* the stage whose model calls are in flight
Stage ==
    CASE pc = "dispatch_wait" -> 0
      [] pc = PcDebateWait(1) -> 1
      [] OTHER -> 2

\* the arguments run_debate_round is called with for round r (main.py 140, 202)
RoundPrior(r) == IF r = 1 THEN initial_responses ELSE debate_responses_1
RoundEval(r) == IF r = 1 THEN critic_eval_0 ELSE critic_eval_1

\* the arguments evaluate_differences is called with for pass n (main.py 109, 149, 211)
PassResponses(n) ==
    CASE n = 0 -> initial_responses [] n = 1 -> debate_responses_1
      [] OTHER -> debate_responses_2
\* evaluate_differences called without a previous evaluation at every pass
PassPreviousNone(n) == NoEval

\* the previous evaluation pass n is called with (main.py 109, 150, 212)
PassPrevious(n) ==
    CASE n = 0 -> NoEval [] n = 1 -> critic_eval_0 [] OTHER -> critic_eval_1

\* SynthesisCall passing the initial responses and the pass-0 evaluation everywhere
SynthesisCallStale(site) ==
    [mode |-> IF site \in {"synth_0", "synth_1c", "synth_2c"}
              THEN "consensus" ELSE "divergence",
     responses |-> initial_responses,
     evaluation |-> IF site \in {"synth_0", "synth_1c", "synth_2c"}
                    THEN NoEval ELSE critic_eval_0]

\* the five synthesis call sites and the arguments each passes
SynthesisCall(site) ==
    CASE site = "synth_0" ->
           [mode |-> "consensus", responses |-> initial_responses, evaluation |-> NoEval]
      [] site = "synth_1c" ->
           [mode |-> "consensus", responses |-> debate_responses_1, evaluation |-> NoEval]
      [] site = "synth_1d" ->
           [mode |-> "divergence", responses |-> debate_responses_1,
            evaluation |-> critic_eval_1]
      [] site = "synth_2c" ->
           [mode |-> "consensus", responses |-> debate_responses_2, evaluation |-> NoEval]
      [] OTHER ->
           [mode |-> "divergence", responses |-> debate_responses_2,
            evaluation |-> critic_eval_2]

SynthesisSites == {"synth_0", "synth_1c", "synth_1d", "synth_2c", "synth_2d"}

\* Gate 0 without the fast path
Gate0RouteNoFastPath(eval0) == "proceed_to_debate_1"

\* Gate 0 (main.py 114-133)
Gate0Route(eval0) ==
    IF eval0.consensus_reached THEN "fast_path_consensus" ELSE "proceed_to_debate_1"

\* Gate 1 with the circuit breaker on a strict increase only
Gate1RouteStrict(eval1, initial) ==
    IF eval1.consensus_reached THEN "consensus_after_debate_1"
    ELSE IF Len(eval1.discrepancies) > initial THEN "circuit_breaker_triggered"
    ELSE "proceed_to_debate_2"

\* Gate 1 without the circuit breaker
Gate1RouteNoBreaker(eval1, initial) ==
    IF eval1.consensus_reached THEN "consensus_after_debate_1" ELSE "proceed_to_debate_2"

\* Gate 1 (main.py 156-198)
Gate1Route(eval1, initial) ==
    IF eval1.consensus_reached THEN "consensus_after_debate_1"
    ELSE IF Len(eval1.discrepancies) >= initial THEN "circuit_breaker_triggered"
    ELSE "proceed_to_debate_2"

\* Gate 2 with the two branches exchanged
Gate2RouteInverted(eval2) ==
    IF eval2.consensus_reached THEN "final_divergence" ELSE "consensus_after_debate_2"

\* Gate 2 (main.py 218-239)
Gate2Route(eval2) ==
    IF eval2.consensus_reached THEN "consensus_after_debate_2" ELSE "final_divergence"

\* RouteTarget with another debate round on a final divergence
RouteTargetRetry(route) ==
    CASE route = "fast_path_consensus" -> "synth_0"
      [] route = "proceed_to_debate_1" -> PcDebate(1)
      [] route = "consensus_after_debate_1" -> "synth_1c"
      [] route = "circuit_breaker_triggered" -> "synth_1d"
      [] route = "proceed_to_debate_2" -> PcDebate(2)
      [] route = "consensus_after_debate_2" -> "synth_2c"
      [] OTHER -> PcDebate(2)

\* where each route continues
RouteTarget(route) ==
    CASE route = "fast_path_consensus" -> "synth_0"
      [] route = "proceed_to_debate_1" -> PcDebate(1)
      [] route = "consensus_after_debate_1" -> "synth_1c"
      [] route = "circuit_breaker_triggered" -> "synth_1d"
      [] route = "proceed_to_debate_2" -> PcDebate(2)
      [] route = "consensus_after_debate_2" -> "synth_2c"
      [] OTHER -> "synth_2d"

\* the state before run_debate_pipeline is called
InitRun ==
    /\ pc = "start"
    /\ calls = NoCalls
    /\ results = <<>>
    /\ output = <<>>
    /\ idx = 0
    /\ initial_responses = <<>>
    /\ debate_responses_1 = <<>>
    /\ debate_responses_2 = <<>>
    /\ critic_eval_0 = NoEval
    /\ critic_eval_1 = NoEval
    /\ critic_eval_2 = NoEval
    /\ initial_count = -1
    /\ current_count = -1
    /\ final_answer = NoneValue
    /\ logger = NewLogger
    /\ trace = NewTrace

\* one run is followed, and what it writes is kept in logger.files
Alone ==
    /\ runs = <<>>
    /\ disk = <<>>

\* a run in which time and the order of completion are not followed
Untimed ==
    /\ latency = [m \in Models |-> 0]
    /\ clock = 0
    /\ recording = FALSE
    /\ completion = <<>>

Init ==
    /\ InitRun
    /\ Untimed
    /\ env = PipelineEnv
    /\ fault_budget = MaxFaults
    /\ Alone

\* main.py 93-98: the logger is constructed; creating the run folder can fail
Start ==
    /\ pc = "start"
    /\ \E created \in BOOLEAN :
          pc' = IF created THEN "dispatch" ELSE "raised"
    /\ logger' = NewLogger
    /\ trace' = Event(trace, "start")
    /\ UNCHANGED <<env_vars, calls, round_vars, responses_vars, eval_vars,
                   count_vars, final_answer>>

\* engine.py 18-21: gather starts one Gateway call per model of INITIAL_MODELS
DispatchStart ==
    /\ pc = "dispatch"
    /\ calls' = PendingCalls(INITIAL_MODELS)
    /\ trace' = [Event(trace, "dispatch") EXCEPT !.gateway = @ + Len(INITIAL_MODELS)]
    /\ pc' = "dispatch_wait"
    /\ UNCHANGED <<env_vars, round_vars, responses_vars, eval_vars, count_vars,
                   final_answer, logger>>

\* one call in flight settles: with the model's answer, or in one of env's ways
CallSettles(m) ==
    /\ pc \in {"dispatch_wait", PcDebateWait(1), PcDebateWait(2)}
    /\ m \in DOMAIN calls
    /\ calls[m].status = "pending"
    /\ clock >= calls[m].start + latency[m]
    /\ completion' = IF recording THEN Append(completion, m) ELSE completion
    /\ \/ /\ calls' = [calls EXCEPT ![m].status = "settled",
                                    ![m].result = OkResult(AnswerText(Stage))]
          /\ UNCHANGED fault_budget
       \/ /\ fault_budget > 0
          /\ \E r \in env :
                calls' = [calls EXCEPT ![m].status = "settled", ![m].result = r]
          /\ fault_budget' = fault_budget - 1
    /\ UNCHANGED <<pc, env, latency, clock, recording, round_vars, responses_vars,
                   eval_vars, count_vars, final_answer, logger, trace, fleet_vars>>

\* engine.py 18-36 and main.py 102-105: gather returns, the results are
\* normalised, run_initial_models returns and the responses are logged
DispatchJoin ==
    /\ pc = "dispatch_wait"
    /\ GatherDone(calls)
    /\ results' = GatherResults(INITIAL_MODELS, calls)
    /\ initial_responses' = NormalizeAll(INITIAL_MODELS, results')
    /\ logger' = log_initial_responses(logger, initial_responses')
    /\ pc' = PcCritic(0)
    /\ UNCHANGED <<env_vars, calls, output, idx, debate_responses_1,
                   debate_responses_2, eval_vars, count_vars, final_answer, trace>>

\* main.py 109-111, 149-153, 211-215: evaluation pass n and its log entry
CriticPass(n) ==
    /\ pc = PcCritic(n)
    /\ \E answers \in BOOLEAN :
       \E result \in IF answers THEN CriticAnswers(n) ELSE GatewayFaults :
          LET r == evaluate_differences(result)
              t == [Event(trace, PcCritic(n)) EXCEPT
                        !.gateway = @ + 1,
                        !.evals = Append(@, [pass_num |-> n,
                                             responses |-> PassResponses(n),
                                             previous_eval |-> PassPrevious(n)])]
          IN  /\ trace' = t
              /\ IF r.raised
                 THEN /\ pc' = "raised"
                      /\ UNCHANGED <<eval_vars, logger>>
                 ELSE /\ pc' = PcGate(n)
                      /\ critic_eval_0' = IF n = 0 THEN r.evaluation ELSE critic_eval_0
                      /\ critic_eval_1' = IF n = 1 THEN r.evaluation ELSE critic_eval_1
                      /\ critic_eval_2' = IF n = 2 THEN r.evaluation ELSE critic_eval_2
                      /\ logger' = log_critic_pass(logger, n, r.evaluation, PassPrevious(n))
    /\ UNCHANGED <<env_vars, calls, round_vars, responses_vars, count_vars, final_answer>>

\* main.py 114-136: Gate 0
Gate0 ==
    /\ pc = PcGate(0)
    /\ LET route == Gate0Route(critic_eval_0)
           count == Len(critic_eval_0.discrepancies)
       IN  /\ pc' = RouteTarget(route)
           /\ IF route = "fast_path_consensus"
              THEN /\ logger' = log_gate_decision(logger, 0, route,
                                    "Consensus reached at Pass 0, skipping debates")
                   /\ UNCHANGED initial_count
              ELSE /\ initial_count' = count
                   /\ logger' = log_gate_decision(logger, 0, route,
                                    "No consensus, " \o ToString(count)
                                        \o " discrepancies detected")
    /\ trace' = Event(trace, PcGate(0))
    /\ UNCHANGED <<env_vars, calls, round_vars, responses_vars, eval_vars,
                   current_count, final_answer>>

\* main.py 156-198: Gate 1, the consensus check and the circuit breaker
Gate1 ==
    /\ pc = PcGate(1)
    /\ LET route == Gate1Route(critic_eval_1, initial_count)
           count == Len(critic_eval_1.discrepancies)
       IN  /\ pc' = RouteTarget(route)
           /\ IF route = "consensus_after_debate_1"
              THEN /\ logger' = log_gate_decision(logger, 1, route,
                                    "Models converged after Debate 1")
                   /\ UNCHANGED current_count
              ELSE /\ current_count' = count
                   /\ logger' = log_gate_decision(logger, 1, route,
                        IF route = "circuit_breaker_triggered"
                        THEN "Discrepancies did not decrease (" \o ToString(count)
                                 \o " >= " \o ToString(initial_count) \o ")"
                        ELSE "Progress detected: " \o ToString(count) \o " < "
                                 \o ToString(initial_count) \o " discrepancies")
    /\ trace' = Event(trace, PcGate(1))
    /\ UNCHANGED <<env_vars, calls, round_vars, responses_vars, eval_vars,
                   initial_count, final_answer>>

\* main.py 218-239: Gate 2
Gate2 ==
    /\ pc = PcGate(2)
    /\ LET route == Gate2Route(critic_eval_2)
       IN  /\ pc' = RouteTarget(route)
           /\ logger' = log_gate_decision(logger, 2, route,
                            IF route = "consensus_after_debate_2"
                            THEN "Models converged after Debate 2"
                            ELSE "Models could not reach consensus after 2 debate rounds")
    /\ trace' = Event(trace, PcGate(2))
    /\ UNCHANGED <<env_vars, calls, round_vars, responses_vars, eval_vars,
                   count_vars, final_answer>>

\* debate.py 36-44: the re-prompts of round r are built and gather starts them
DebateStart(r) ==
    /\ pc = PcDebate(r)
    /\ calls' = DebateCalls(RoundPrior(r), RoundEval(r))
    /\ trace' = [Event(trace, PcDebate(r)) EXCEPT
                    !.gateway = @ + Len(DEBATE_MODELS),
                    !.rounds = Append(@, [round |-> r, prior |-> RoundPrior(r),
                                          critic_eval |-> RoundEval(r)])]
    /\ pc' = PcDebateWait(r)
    /\ UNCHANGED <<env_vars, round_vars, responses_vars, eval_vars, count_vars,
                   final_answer, logger>>

\* the loop entered as soon as one re-prompt has settled, as with as_completed
DebateJoinAtFirstSettled(r) ==
    /\ pc = PcDebateWait(r)
    /\ \E m \in DOMAIN calls : calls[m].status = "settled"
    /\ results' = GatherResults(DEBATE_MODELS, calls)
    /\ output' = <<>>
    /\ idx' = 1
    /\ pc' = PcDebateLoop(r)
    /\ UNCHANGED <<env_vars, calls, responses_vars, eval_vars, count_vars,
                   final_answer, logger, trace>>

\* debate.py 44-47: gather returns once every re-prompt has settled
DebateJoin(r) ==
    /\ pc = PcDebateWait(r)
    /\ GatherDone(calls)
    /\ results' = GatherResults(DEBATE_MODELS, calls)
    /\ output' = <<>>
    /\ idx' = 1
    /\ pc' = PcDebateLoop(r)
    /\ UNCHANGED <<env_vars, calls, responses_vars, eval_vars, count_vars,
                   final_answer, logger, trace>>

\* the loop with an agreement check for every reply, failed or not
DebateLoopStepChecksFailures(r) ==
    /\ pc = PcDebateLoop(r)
    /\ idx <= Len(DEBATE_MODELS)
    /\ LET model == DEBATE_MODELS[idx]
           result == results[idx]
       IN  IF result.exc
           THEN /\ output' = DictSet(output, model, NormalizeResult(result))
                /\ idx' = idx + 1
                /\ UNCHANGED <<pc, trace>>
           ELSE \E answers \in BOOLEAN :
                \E answer \in IF answers THEN AgreementAnswers ELSE GatewayFaults :
                   LET agreed == is_agreement(answer)
                   IN  /\ trace' = [Event(trace, "is_agreement") EXCEPT
                                        !.gateway = @ + 1,
                                        !.agreed = IF agreed.raised THEN @
                                                   ELSE Append(@, [round |-> r,
                                                                   model |-> model,
                                                                   value |-> agreed.value])]
                       /\ IF agreed.raised
                          THEN /\ pc' = "raised"
                               /\ UNCHANGED <<output, idx>>
                          ELSE /\ output' = DictSet(output, model,
                                                IF result.ok
                                                THEN FoldedEntry(model, Str(result.content),
                                                                 agreed.value, RoundPrior(r))
                                                ELSE NormalizeResult(result))
                               /\ idx' = idx + 1
                               /\ UNCHANGED pc
    /\ UNCHANGED <<env_vars, calls, results, responses_vars, eval_vars, count_vars,
                   final_answer, logger>>

\* debate.py 48-63: one iteration of the loop over zip(DEBATE_MODELS, results);
\* a successful reply is classified by one awaited is_agreement call
DebateLoopStep(r) ==
    /\ pc = PcDebateLoop(r)
    /\ idx <= Len(DEBATE_MODELS)
    /\ LET model == DEBATE_MODELS[idx]
           result == results[idx]
       IN  IF result.exc \/ ~result.ok
           THEN /\ output' = DictSet(output, model, NormalizeResult(result))
                /\ idx' = idx + 1
                /\ UNCHANGED <<pc, trace>>
           ELSE \E answers \in BOOLEAN :
                \E answer \in IF answers THEN AgreementAnswers ELSE GatewayFaults :
                   LET agreed == is_agreement(answer)
                   IN  /\ trace' = [Event(trace, "is_agreement") EXCEPT
                                        !.gateway = @ + 1,
                                        !.agreed = IF agreed.raised THEN @
                                                   ELSE Append(@, [round |-> r,
                                                                   model |-> model,
                                                                   value |-> agreed.value])]
                       /\ IF agreed.raised
                          THEN /\ pc' = "raised"
                               /\ UNCHANGED <<output, idx>>
                          ELSE /\ output' = DictSet(output, model,
                                                FoldedEntry(model, Str(result.content),
                                                            agreed.value, RoundPrior(r)))
                               /\ idx' = idx + 1
                               /\ UNCHANGED pc
    /\ UNCHANGED <<env_vars, calls, results, responses_vars, eval_vars, count_vars,
                   final_answer, logger>>

\* a round that writes its entries into the dict it was given
DebateReturnInPlace(r) ==
    /\ pc = PcDebateLoop(r)
    /\ idx > Len(DEBATE_MODELS)
    /\ initial_responses' = IF r = 1 THEN output ELSE initial_responses
    /\ debate_responses_1' = output
    /\ debate_responses_2' = IF r = 2 THEN output ELSE debate_responses_2
    /\ logger' = log_debate_round(logger, r, output)
    /\ pc' = PcCritic(r)
    /\ UNCHANGED <<env_vars, calls, round_vars, eval_vars, count_vars, final_answer,
                   trace>>

\* debate.py 65 and main.py 143-145, 205-207: the round returns and is logged
DebateReturn(r) ==
    /\ pc = PcDebateLoop(r)
    /\ idx > Len(DEBATE_MODELS)
    /\ debate_responses_1' = IF r = 1 THEN output ELSE debate_responses_1
    /\ debate_responses_2' = IF r = 2 THEN output ELSE debate_responses_2
    /\ logger' = log_debate_round(logger, r, output)
    /\ pc' = PcCritic(r)
    /\ UNCHANGED <<env_vars, calls, round_vars, initial_responses, eval_vars,
                   count_vars, final_answer, trace>>

\* main.py 120-125, 162-167, 181-188, 224-244: the synthesis call of the route
\* taken settles, its mode and answer are recorded, the run record is saved and
\* the answer returned; an exception of the call or of save() leaves the run
SynthesizeAndReturn ==
    /\ pc \in SynthesisSites
    /\ \E result \in SynthesisAnswers \cup SynthesisFaults, writable \in BOOLEAN :
          LET call == SynthesisCall(pc)
              r == SynthesisAnswer(result)
              logged == log_final_synthesis(logger, call.mode, r.answer)
              saved == save(logged, writable)
              t == [Event(trace, "synthesis") EXCEPT
                        !.gateway = @ + 1, !.synth = Append(@, call),
                        !.generation = Append(@, result)]
          IN  IF r.raised
              THEN /\ pc' = "raised"
                   /\ trace' = t
                   /\ UNCHANGED <<final_answer, logger>>
              ELSE /\ final_answer' = r.answer
                   /\ logger' = saved.logger
                   /\ trace' = Event(Event(t, "log_final_synthesis"), "save")
                   /\ pc' = IF saved.raised THEN "raised" ELSE "returned"
    /\ UNCHANGED <<env_vars, calls, round_vars, responses_vars, eval_vars, count_vars>>

Next ==
    \/ Start
    \/ DispatchStart
    \/ \E m \in Models : CallSettles(m)
    \/ DispatchJoin
    \/ \E n \in 0..2 : CriticPass(n)
    \/ Gate0
    \/ Gate1
    \/ Gate2
    \/ \E r \in 1..2 : DebateStart(r)
    \/ \E r \in 1..2 : DebateJoin(r)
    \/ \E r \in 1..2 : DebateLoopStep(r)
    \/ \E r \in 1..2 : DebateReturn(r)
    \/ SynthesizeAndReturn

Spec == Init /\ [][Next]_vars

-----------------------------------------------------------------------------
(* The dispatcher alone: every call of the dispatch may fail, in every way *)

\* time passes while a gather waits, up to the moment its next call is due
Tick ==
    /\ pc \in {"dispatch_wait", PcDebateWait(1), PcDebateWait(2)}
    /\ \E m \in DOMAIN calls : calls[m].status = "pending"
    /\ \A m \in DOMAIN calls :
          calls[m].status = "pending" => clock < calls[m].start + latency[m]
    /\ clock' = clock + 1
    /\ UNCHANGED <<pc, env, fault_budget, latency, recording, completion, calls,
                   round_vars, responses_vars, eval_vars, count_vars, final_answer,
                   logger, trace, fleet_vars>>

InitDispatch ==
    /\ InitRun
    /\ env = FullEnv
    /\ fault_budget = Len(INITIAL_MODELS)
    /\ Alone
    /\ latency \in [Models -> 1..MaxLatency]
    /\ clock = 0
    /\ recording = TRUE
    /\ completion = <<>>

NextDispatch ==
    \/ Start
    \/ DispatchStart
    \/ \E m \in Models : CallSettles(m)
    \/ Tick
    \/ DispatchJoin

SpecDispatch == InitDispatch /\ [][NextDispatch]_vars

-----------------------------------------------------------------------------
(* What the run has done so far *)

Passes == Len(trace.evals)
Rounds == Len(trace.rounds)
Ended == pc \in {"returned", "raised"}
IsSet(evaluation) == evaluation # NoEval
Count(evaluation) == Len(evaluation.discrepancies)

\* the response set of the last step that produced one
LatestResponses ==
    CASE Rounds = 0 -> initial_responses
      [] Rounds = 1 -> debate_responses_1
      [] OTHER -> debate_responses_2

\* the evaluation of the last pass
LatestEval ==
    CASE Passes <= 1 -> critic_eval_0
      [] Passes = 2 -> critic_eval_1
      [] OTHER -> critic_eval_2

ConsensusCall(responses) ==
    [mode |-> "consensus", responses |-> responses, evaluation |-> NoEval]

-----------------------------------------------------------------------------
(* The claims *)

\* C1: a run performs at most 3 evaluation passes (pass 0, 1, 2, in this order)
\* and at most 2 debate rounds (round 1, 2), whatever the evaluations and the
\* outcomes of the calls are; there is no 4th pass and no 3rd round.
C1_BoundedPassesAndRounds ==
    /\ Passes <= 3
    /\ Rounds <= 2
    /\ \A i \in 1..Passes : trace.evals[i].pass_num = i - 1
    /\ \A i \in 1..Rounds : trace.rounds[i].round = i
    /\ Len(trace.synth) <= 1

C1_Witness ==
    /\ pc = "returned"
    /\ Passes = 3
    /\ Rounds = 2

\* C2: a run never ends by an exception: when it has ended it has returned an
\* answer text, whatever failed on the way.
C2_RunAlwaysReturnsAnswer ==
    Ended => (pc = "returned" /\ final_answer # NoneValue)

C4_CircuitBreaker ==
    ( /\ IsSet(critic_eval_0) /\ ~critic_eval_0.consensus_reached
      /\ IsSet(critic_eval_1) /\ ~critic_eval_1.consensus_reached
      /\ Count(critic_eval_1) >= Count(critic_eval_0) ) =>
        /\ Rounds = 1
        /\ Passes = 2
        /\ pc \in {PcGate(1), "synth_1d", "returned", "raised"}
        /\ pc # PcGate(1) => logger.gate_decision[1].route = "circuit_breaker_triggered"
        /\ \A i \in 1..Len(trace.synth) : trace.synth[i].mode = "divergence"
        /\ Ended => Len(trace.synth) = 1

\* the circuit breaker on an equal count with a different set of claims
C4_Witness ==
    /\ pc = "returned"
    /\ logger.gate_decision[1].route = "circuit_breaker_triggered"
    /\ Count(critic_eval_1) = Count(critic_eval_0)
    /\ Range(critic_eval_1.discrepancies) # Range(critic_eval_0.discrepancies)
    /\ logger.final_synthesis.mode = "divergence"

\* C5: debate round 2 runs if and only if pass 0 and pass 1 both have no
\* consensus and the pass-1 count c satisfies 0 < c < initial_count; the run
\* then synthesizes in consensus mode if pass 2 has consensus_reached = true
\* and in divergence mode otherwise.
C5_ProgressPath ==
    /\ (Rounds = 2 \/ pc = PcDebate(2)) <=>
          ( /\ IsSet(critic_eval_0) /\ ~critic_eval_0.consensus_reached
            /\ IsSet(critic_eval_1) /\ ~critic_eval_1.consensus_reached
            /\ 0 < Count(critic_eval_1)
            /\ Count(critic_eval_1) < Count(critic_eval_0)
            /\ pc # PcGate(1) )
    /\ (IsSet(critic_eval_2) /\ pc # PcGate(2)) =>
          LET mode == IF critic_eval_2.consensus_reached
                      THEN "consensus" ELSE "divergence"
          IN  /\ \A i \in 1..Len(trace.synth) : trace.synth[i].mode = mode
              /\ Ended => Len(trace.synth) = 1
              /\ pc = "returned" => logger.final_synthesis.mode = mode

C5_Witness ==
    /\ pc = "returned"
    /\ Rounds = 2
    /\ Count(critic_eval_0) = 2
    /\ Count(critic_eval_1) = 1
    /\ critic_eval_2.consensus_reached
    /\ logger.final_synthesis.mode = "consensus"

\* C6: every evaluation evaluate_differences returns has consensus_reached =
\* true if and only if its discrepancy list is empty.
C6_ConsensusIffNoDiscrepancies ==
    \A evaluation \in {critic_eval_0, critic_eval_1, critic_eval_2} :
        IsSet(evaluation) =>
            (evaluation.consensus_reached <=> evaluation.discrepancies = <<>>)

\* C7: when a run ends in consensus mode, the most recent evaluation has no
\* discrepancy left.
C7_ConsensusModeMeansNoDiscrepancies ==
    (pc = "returned" /\ logger.final_synthesis.mode = "consensus") =>
        LatestEval.discrepancies = <<>>

C10_DispatchWaitsForAll ==
    /\ pc = PcCritic(0) =>
          \A i \in 1..Len(INITIAL_MODELS) :
              /\ calls[INITIAL_MODELS[i]].status = "settled"
              /\ results[i] = calls[INITIAL_MODELS[i]].result
    /\ pc = "dispatch_wait" => initial_responses = <<>>

\* the dispatch is still waiting although one call has raised and one has failed
C10_Witness ==
    /\ pc = "dispatch_wait"
    /\ calls[INITIAL_MODELS[1]].status = "settled"
    /\ calls[INITIAL_MODELS[1]].result.exc
    /\ calls[INITIAL_MODELS[2]].status = "settled"
    /\ ~calls[INITIAL_MODELS[2]].result.ok
    /\ calls[INITIAL_MODELS[3]].status = "pending"

-----------------------------------------------------------------------------
(* One gather on its own: run_initial_models, or run_debate_round called with a
   prior response set and an evaluation; every call may fail in every way and
   the order in which the calls complete is kept *)

\* response sets run_initial_models returns
InitialResponseSets ==
    { NormalizeAll(INITIAL_MODELS,
                   <<OkResult(AnswerText(0)), second, OkResult(AnswerText(0))>>) :
        second \in {OkResult(AnswerText(0))} \cup PipelineEnv }

\* response sets round 1 returns: new replies, one of them folded or failed
RoundOneResponseSets ==
    { <<<<DEBATE_MODELS[1], first>>, <<DEBATE_MODELS[2], AnswerText(1)>>,
        <<DEBATE_MODELS[3], AnswerText(1)>>>> :
        first \in {AnswerText(0), AnswerText(1), "ERROR (exception): InvalidURL"} }

\* evaluations without consensus that evaluate_differences returns
OpenEvaluations ==
    { PostProcess(CriticEvaluation(FALSE, SubSeq(PoolDiscrepancies, 1, k))) : k \in 1..2 }

InitGather ==
    /\ InitRun
    /\ latency = [m \in Models |-> 0]
    /\ clock = 0
    /\ recording = TRUE
    /\ completion = <<>>
    /\ env = FullEnv
    /\ fault_budget = Len(DEBATE_MODELS)
    /\ Alone

InitRound ==
    /\ calls = NoCalls
    /\ results = <<>>
    /\ output = <<>>
    /\ idx = 0
    /\ debate_responses_2 = <<>>
    /\ critic_eval_2 = NoEval
    /\ initial_count = -1
    /\ current_count = -1
    /\ final_answer = NoneValue
    /\ logger = NewLogger
    /\ trace = NewTrace
    /\ latency = [m \in Models |-> 0]
    /\ clock = 0
    /\ recording = TRUE
    /\ completion = <<>>
    /\ env = FullEnv
    /\ fault_budget = Len(DEBATE_MODELS)
    /\ Alone
    /\ initial_responses \in InitialResponseSets
    /\ critic_eval_0 \in OpenEvaluations
    /\ \/ /\ pc = PcDebate(1)
          /\ debate_responses_1 = <<>>
          /\ critic_eval_1 = NoEval
       \/ /\ pc = PcDebate(2)
          /\ debate_responses_1 \in RoundOneResponseSets
          /\ critic_eval_1 \in OpenEvaluations

NextGather ==
    \/ Start
    \/ DispatchStart
    \/ \E m \in Models : CallSettles(m)
    \/ DispatchJoin
    \/ \E r \in 1..2 : DebateStart(r)
    \/ \E r \in 1..2 : DebateJoin(r)
    \/ \E r \in 1..2 : DebateLoopStep(r)
    \/ \E r \in 1..2 : DebateReturn(r)

SpecGather == (InitGather \/ InitRound) /\ [][NextGather]_vars

-----------------------------------------------------------------------------
(* evaluate_differences on its own: two passes over whatever the critic's
   analysis may answer *)

SeqsUpTo(S, n) == UNION { [1..k -> S] : k \in 0..n }

\* a claim text one character longer than a claim_id, ending in c
LongClaim(c) == [i \in 1..(ClaimIdMaxLen + 1) |-> IF i <= ClaimIdMaxLen THEN "a" ELSE c]

\* Discrepancies as the analysis may return them: nothing but the field types of
\* schemas.py constrains what the critic model writes.
EvalDiscrepancies ==
    { \* a claim one model holds and the two others miss
      Discrepancy(NoneId, <<"A">>, <<INITIAL_MODELS[1]>>,
                  <<INITIAL_MODELS[2], INITIAL_MODELS[3]>>),
      \* another claim text with the same slug
      Discrepancy(NoneId, <<"a", "!">>, <<INITIAL_MODELS[2], INITIAL_MODELS[3]>>,
                  <<INITIAL_MODELS[1]>>),
      \* two claims the analysis gave the same claim_id
      Discrepancy(<<"c", "1">>, <<"C", "!">>, <<INITIAL_MODELS[1], INITIAL_MODELS[2]>>,
                  <<INITIAL_MODELS[3]>>),
      Discrepancy(<<"c", "1">>, <<"B", " ", "b">>, <<INITIAL_MODELS[3]>>,
                  <<INITIAL_MODELS[1], INITIAL_MODELS[2]>>),
      \* a model listed on both sides
      Discrepancy(NoneId, <<"t", "e", "a">>, <<INITIAL_MODELS[1], INITIAL_MODELS[2]>>,
                  <<INITIAL_MODELS[2], INITIAL_MODELS[3]>>),
      \* a claim no model misses
      UniversalClaim,
      \* a model left out of both sides
      Discrepancy(NoneId, <<"b">>, <<INITIAL_MODELS[1]>>, <<INITIAL_MODELS[2]>>),
      \* no model with the claim, and a model that was not evaluated
      Discrepancy(NoneId, <<"e">>, <<>>, <<"other/model">>),
      \* a claim text without a word character, and an empty claim_id
      Discrepancy(NoneId, <<"!">>, <<INITIAL_MODELS[1]>>,
                  <<INITIAL_MODELS[2], INITIAL_MODELS[3]>>),
      Discrepancy(<<>>, <<"l">>, <<INITIAL_MODELS[1]>>,
                  <<INITIAL_MODELS[2], INITIAL_MODELS[3]>>),
      \* two claim texts that differ after the first ClaimIdMaxLen characters
      Discrepancy(NoneId, LongClaim("b"), <<INITIAL_MODELS[1]>>,
                  <<INITIAL_MODELS[2], INITIAL_MODELS[3]>>),
      Discrepancy(NoneId, LongClaim("c"), <<INITIAL_MODELS[2]>>,
                  <<INITIAL_MODELS[1], INITIAL_MODELS[3]>>) }

\* every successful result of the critic call: pass 0 answers with up to
\* MaxEvalDisc discrepancies, pass 1 with at most one
EvalAnswers(n) ==
    { OkResult(CriticContent("json", CriticEvaluation(flag, discs))) :
        flag \in BOOLEAN,
        discs \in SeqsUpTo(EvalDiscrepancies, IF n = 0 THEN MaxEvalDisc ELSE 1) }
    \cup { OkResult(CriticContent("fenced", CriticEvaluation(flag, <<d>>))) :
             flag \in BOOLEAN, d \in EvalDiscrepancies }
    \cup { OkResult(CriticContent("invalid", CriticEvaluation(FALSE, <<>>))),
           OkResult(CriticContent("none", CriticEvaluation(FALSE, <<>>))) }

\* critic.py 143-180: the critic call of pass n settles and evaluate_differences
\* returns its evaluation, which the caller logs (main.py 111, 153), or an
\* exception leaves it
EvaluateCall(n) ==
    /\ pc = PcCritic(n)
    /\ \E answers \in BOOLEAN :
       \E result \in IF answers THEN EvalAnswers(n) ELSE GatewayFaults :
          LET r == evaluate_differences(result)
          IN  /\ results' = Append(results, result)
              /\ trace' = [Event(trace, PcCritic(n)) EXCEPT
                               !.gateway = @ + 1,
                               !.evals = Append(@, [pass_num |-> n,
                                                    responses |-> initial_responses,
                                                    previous_eval |-> PassPrevious(n)])]
              /\ IF r.raised
                 THEN /\ pc' = "raised"
                      /\ UNCHANGED <<eval_vars, logger>>
                 ELSE /\ pc' = IF n = 0 THEN PcCritic(1) ELSE "evaluated"
                      /\ critic_eval_0' = IF n = 0 THEN r.evaluation ELSE critic_eval_0
                      /\ critic_eval_1' = IF n = 1 THEN r.evaluation ELSE critic_eval_1
                      /\ UNCHANGED critic_eval_2
                      /\ logger' = log_critic_pass(logger, n, r.evaluation, PassPrevious(n))
    /\ UNCHANGED <<env_vars, calls, output, idx, responses_vars, count_vars,
                   final_answer>>

InitEval ==
    /\ calls = NoCalls
    /\ results = <<>>
    /\ output = <<>>
    /\ idx = 0
    /\ initial_responses =
          NormalizeAll(INITIAL_MODELS,
                       [i \in 1..Len(INITIAL_MODELS) |-> OkResult(AnswerText(0))])
    /\ debate_responses_1 = <<>>
    /\ debate_responses_2 = <<>>
    /\ critic_eval_0 = NoEval
    /\ critic_eval_1 = NoEval
    /\ critic_eval_2 = NoEval
    /\ initial_count = -1
    /\ current_count = -1
    /\ final_answer = NoneValue
    /\ logger = NewLogger
    /\ trace = NewTrace
    /\ Untimed
    /\ env = FullEnv
    /\ fault_budget = 0
    /\ Alone
    /\ pc = PcCritic(0)

NextEval == \E n \in 0..1 : EvaluateCall(n)

SpecEval == InitEval /\ [][NextEval]_vars

-----------------------------------------------------------------------------
(* The re-prompts of a debate round, for every evaluation the critic can return *)

InitPrompt ==
    /\ pc = PcDebate(1)
    /\ calls = NoCalls
    /\ results = <<>>
    /\ output = <<>>
    /\ idx = 0
    /\ initial_responses \in InitialResponseSets
    /\ debate_responses_1 = <<>>
    /\ debate_responses_2 = <<>>
    /\ critic_eval_0 \in { e \in { PostProcess(CriticEvaluation(FALSE, discs)) :
                                      discs \in SeqsUpTo(EvalDiscrepancies, MaxEvalDisc) } :
                              ~e.consensus_reached }
    /\ critic_eval_1 = NoEval
    /\ critic_eval_2 = NoEval
    /\ initial_count = Len(critic_eval_0.discrepancies)
    /\ current_count = -1
    /\ final_answer = NoneValue
    /\ logger = NewLogger
    /\ trace = NewTrace
    /\ Untimed
    /\ env = FullEnv
    /\ fault_budget = 0
    /\ Alone

NextPrompt == DebateStart(1)

SpecPrompt == InitPrompt /\ [][NextPrompt]_vars

-----------------------------------------------------------------------------
(* The loop of a debate round over replies that all succeeded, the result of
   each classification call being kept beside the calls of the round *)

InitFold ==
    /\ pc = PcDebateLoop(1)
    /\ calls = [m \in Range(DEBATE_MODELS) |->
                   [status |-> "settled", result |-> OkResult(AnswerText(1)), start |-> 0]]
    /\ results = GatherResults(DEBATE_MODELS, calls)
    /\ output = <<>>
    /\ idx = 1
    /\ initial_responses \in InitialResponseSets
    /\ debate_responses_1 = <<>>
    /\ debate_responses_2 = <<>>
    /\ critic_eval_0 \in OpenEvaluations
    /\ critic_eval_1 = NoEval
    /\ critic_eval_2 = NoEval
    /\ initial_count = Len(critic_eval_0.discrepancies)
    /\ current_count = -1
    /\ final_answer = NoneValue
    /\ logger = NewLogger
    /\ trace = NewTrace
    /\ Untimed
    /\ env = FullEnv
    /\ fault_budget = 0
    /\ Alone

\* debate.py 53-59 and agreement.py 29-34: the reply of DEBATE_MODELS[idx] is
\* classified by one awaited is_agreement call, whose Gateway call settles with
\* an answer, a typed failure or an exception, and the entry is written
FoldStep ==
    /\ pc = PcDebateLoop(1)
    /\ idx <= Len(DEBATE_MODELS)
    /\ results[idx].ok
    /\ \E answers \in BOOLEAN :
       \E answer \in IF answers THEN AgreementAnswers ELSE GatewayFaults :
          LET model == DEBATE_MODELS[idx]
              agreed == is_agreement(answer)
          IN  /\ calls' = [m \in Range(DEBATE_MODELS) \cup {"is_agreement"} |->
                              IF m = "is_agreement"
                              THEN [status |-> "settled", result |-> answer, start |-> 0]
                              ELSE calls[m]]
              /\ trace' = [Event(trace, "is_agreement") EXCEPT !.gateway = @ + 1]
              /\ IF agreed.raised
                 THEN /\ pc' = "raised"
                      /\ UNCHANGED <<output, idx>>
                 ELSE /\ output' = DictSet(output, model,
                                           FoldedEntry(model, Str(results[idx].content),
                                                       agreed.value, initial_responses))
                      /\ idx' = idx + 1
                      /\ UNCHANGED pc
    /\ UNCHANGED <<env_vars, results, responses_vars, eval_vars, count_vars,
                   final_answer, logger>>

NextFold == FoldStep

SpecFold == InitFold /\ [][NextFold]_vars

-----------------------------------------------------------------------------
(* The Gateway on its own: fetch_llm_response (openrouter.py) *)

\* the classes an exception is an instance of
ExceptionBases(class) ==
    CASE class \in {"ReadTimeout", "ConnectTimeout"} ->
            {class, "TimeoutException", "TransportError", "RequestError", "HTTPError",
             "Exception"}
      [] class = "ConnectError" ->
            {class, "NetworkError", "TransportError", "RequestError", "HTTPError",
             "Exception"}
      [] class = "HTTPStatusError" -> {class, "HTTPError", "Exception"}
      [] class = "JSONDecodeError" -> {class, "ValueError", "Exception"}
      [] class \in {"KeyError", "IndexError"} -> {class, "LookupError", "Exception"}
      [] class = "FileNotFoundError" -> {class, "OSError", "Exception"}
      [] class = "CancelledError" -> {class, "BaseException"}
      [] OTHER -> {class, "Exception"}

\* nothing was raised
NoException == [class |-> "", message |-> ""]

\* What the try block of fetch_llm_response meets: an exception while the client
\* is built, an exception of the POST, a response with a status and a text, and
\* for status 200 a body.
Behaviour(client, post, status, body) ==
    [client |-> client, post |-> post, status |-> status, body |-> body]

NetworkBehaviours ==
    { Behaviour([class |-> "FileNotFoundError", message |-> "No such file or directory"],
                NoException, 0, "") }
    \cup { Behaviour(NoException, e, 0, "") :
             e \in { [class |-> "ReadTimeout", message |-> ""],
                     [class |-> "ConnectTimeout", message |-> ""],
                     [class |-> "ConnectError", message |-> "connection refused"],
                     [class |-> "RuntimeError", message |-> "Event loop is closed"],
                     [class |-> "CancelledError", message |-> ""] } }
    \cup { Behaviour(NoException, NoException, status, "upstream") :
             status \in {400, 401, 429, 500} }
    \cup { Behaviour(NoException, NoException, 200, body) :
             body \in {"answer0", "answer1", "answer2", "content: null", "not json",
                       "no choices", "empty choices", "choice is a string", "null"} }

\* the try block (openrouter.py 29-37): the exception it ends with, if any, the
\* content it found, and the number of POSTs it made
TryFetch(b) ==
    IF b.client # NoException
    THEN [raised |-> b.client, content |-> NoneValue, posts |-> 0]
    ELSE IF b.post # NoException
    THEN [raised |-> b.post, content |-> NoneValue, posts |-> 1]
    ELSE IF b.status # 200
    THEN [raised |-> [class |-> "HTTPStatusError",
                      message |-> "HTTP " \o ToString(b.status) \o ": " \o b.body],
          content |-> NoneValue, posts |-> 1]
    ELSE CASE b.body = "not json" ->
                [raised |-> [class |-> "JSONDecodeError", message |-> "Expecting value"],
                 content |-> NoneValue, posts |-> 1]
           [] b.body = "no choices" ->
                [raised |-> [class |-> "KeyError", message |-> "'choices'"],
                 content |-> NoneValue, posts |-> 1]
           [] b.body = "empty choices" ->
                [raised |-> [class |-> "IndexError", message |-> "list index out of range"],
                 content |-> NoneValue, posts |-> 1]
           [] b.body \in {"choice is a string", "null"} ->
                [raised |-> [class |-> "TypeError", message |-> "not subscriptable"],
                 content |-> NoneValue, posts |-> 1]
           [] b.body = "content: null" ->
                [raised |-> NoException, content |-> NoneValue, posts |-> 1]
           [] OTHER ->
                [raised |-> NoException, content |-> b.body, posts |-> 1]

\* the except clauses (openrouter.py 39-66), tried in the order they are written
fetch_llm_response(b) ==
    LET try == TryFetch(b)
        bases == ExceptionBases(try.raised.class)
    IN  IF try.raised = NoException THEN OkResult(try.content)
        ELSE IF "TimeoutException" \in bases
        THEN FailedResult("timeout", "Request timed out after 30 seconds.")
        ELSE IF "HTTPStatusError" \in bases
        THEN FailedResult("http_error", try.raised.message)
        ELSE IF "RequestError" \in bases
        THEN FailedResult("request_error", try.raised.message)
        ELSE IF bases \cap {"KeyError", "IndexError", "TypeError", "ValueError"} # {}
        THEN FailedResult("parse_error",
                          "Malformed response payload: " \o try.raised.message)
        ELSE RaisedResult(try.raised.message)

\* the model ids fetch_llm_response is called with: the dispatch and debate
\* models, the agreement model (one of them) and the critic and synthesizer model
GatewayCallers == Models \cup {"deepseek/deepseek-v3.2"}

InitFetch ==
    /\ InitRun
    /\ Untimed
    /\ env = FullEnv
    /\ fault_budget = 0
    /\ Alone

\* fetch_llm_response is called with a model and a prompt
FetchStart ==
    /\ pc = "start"
    /\ \E model \in GatewayCallers, prompt \in {"question", "re-prompt"} :
          calls' = [m \in {model} |->
                       [status |-> "pending", result |-> OkResult(NoneValue),
                        start |-> clock, prompt |-> prompt]]
    /\ pc' = "fetch"
    /\ UNCHANGED <<env_vars, round_vars, responses_vars, eval_vars, count_vars,
                   final_answer, logger, trace>>

\* the call meets one behaviour of the network and returns or raises
FetchCall ==
    /\ pc = "fetch"
    /\ \E m \in DOMAIN calls, b \in NetworkBehaviours :
          /\ calls' = [calls EXCEPT ![m].status = "settled",
                                    ![m].result = fetch_llm_response(b)]
          /\ results' = <<b>>
          /\ trace' = [Event(trace, "fetch") EXCEPT !.gateway = @ + TryFetch(b).posts]
          /\ pc' = IF fetch_llm_response(b).exc THEN "raised" ELSE "fetched"
    /\ UNCHANGED <<env_vars, output, idx, responses_vars, eval_vars, count_vars,
                   final_answer, logger>>

NextFetch == FetchStart \/ FetchCall

SpecFetch == InitFetch /\ [][NextFetch]_vars

-----------------------------------------------------------------------------
(* Two runs of run_debate_pipeline in one process, and the log directory *)

RunIds == {1, 2}

\* clock counts ticks of the wall clock: TicksPerSecond of them make a second
TicksPerSecond == 2

\* the wall clock is followed up to MaxClock
MaxClock == 3

Prompts == {"question one", "question two"}

\* base_log_dir / f"run_{timestamp_str}", timestamp_str being
\* start_time.strftime("%Y-%m-%d_%H-%M-%S"): the second the tick lies in
RunDir(start_time) ==
    LET timestamp_str == ToString(start_time \div TicksPerSecond)
    IN  "run_" \o timestamp_str

\* a run before DebateLogger(prompt) is constructed
NewRun == [pc |-> "start", prompt |-> "", start_time |-> -1, run_dir |-> "",
           logger |-> NewLogger]

\* what a run has logged when it reaches save(): by the fast path (main.py
\* 102-122), or by one debate round and the circuit breaker (main.py 102-185)
LoggedBy(path, prompt) ==
    LET RunResponses(stage) ==
            [i \in 1..Len(INITIAL_MODELS) |->
                <<INITIAL_MODELS[i], AnswerText(stage) \o " to " \o prompt>>]
        l0 == log_initial_responses(NewLogger, RunResponses(0))
        open == CriticEvaluation(FALSE, <<PoolDiscrepancies[1]>>)
    IN  IF path = "fast"
        THEN log_final_synthesis(
                 log_gate_decision(
                     log_critic_pass(l0, 0, CriticEvaluation(TRUE, <<>>), NoEval),
                     0, Gate0Route(CriticEvaluation(TRUE, <<>>)),
                     "Consensus reached at Pass 0, skipping debates"),
                 "consensus", "synthesis of " \o prompt)
        ELSE log_final_synthesis(
                 log_gate_decision(
                     log_critic_pass(
                         log_debate_round(
                             log_gate_decision(
                                 log_critic_pass(l0, 0, open, NoEval),
                                 0, Gate0Route(open),
                                 "No consensus, 1 discrepancies detected"),
                             1, RunResponses(1)),
                         1, open, open),
                     1, Gate1Route(open, 1), "Discrepancies did not decrease (1 >= 1)"),
                 "divergence", "synthesis of " \o prompt)

\* flow_data as save() dumps it
FlowData(run) ==
    [metadata |-> [timestamp_start |-> run.start_time, prompt |-> run.prompt],
     critic_pass |-> run.logger.critic_pass,
     gate_decision |-> run.logger.gate_decision,
     final_synthesis |-> run.logger.final_synthesis]

\* what save() dumps into a file
FileContent(run, file) ==
    CASE file = "flow.json" -> FlowData(run)
      [] file = "initial_responses.json" -> run.logger.initial_responses
      [] file = "debate_round_1.json" -> run.logger.debate_round_1_responses
      [] file = "debate_round_2.json" -> run.logger.debate_round_2_responses
      [] OTHER -> run.logger.final_synthesis_data

InitRuns ==
    /\ InitRun
    /\ Untimed
    /\ env = {}
    /\ fault_budget = 0
    /\ runs = [r \in RunIds |-> NewRun]
    /\ disk = [d \in {} |-> 0]

\* main.py 93-98, logger.py 26-63: a run starts and constructs its logger;
\* mkdir(parents=True, exist_ok=True) leaves a folder that exists as it is
RunStart(r) ==
    /\ runs[r].pc = "start"
    /\ \E prompt \in Prompts :
          runs' = [runs EXCEPT ![r] = [pc |-> "running", prompt |-> prompt,
                                       start_time |-> clock, run_dir |-> RunDir(clock),
                                       logger |-> NewLogger]]
    /\ disk' = IF RunDir(clock) \in DOMAIN disk THEN disk
               ELSE [d \in DOMAIN disk \cup {RunDir(clock)} |->
                        IF d = RunDir(clock) THEN [f \in {} |-> 0] ELSE disk[d]]
    /\ UNCHANGED <<pc, env, fault_budget, time_vars, calls, round_vars, responses_vars,
                   eval_vars, count_vars, final_answer, logger, trace>>

\* main.py 100-239: the run goes through its passes and logs them
RunPipeline(r) ==
    /\ runs[r].pc = "running"
    /\ \E path \in {"fast", "debated"} :
          runs' = [runs EXCEPT ![r].pc = "logged",
                               ![r].logger = LoggedBy(path, runs[r].prompt)]
    /\ UNCHANGED <<pc, env, fault_budget, time_vars, calls, round_vars, responses_vars,
                   eval_vars, count_vars, final_answer, logger, trace, disk>>

\* main.py 122, 164, 185, 241 and logger.py 151-194: logger.save() opens each
\* of its files with "w" and dumps into it: a file that exists is truncated and
\* rewritten; writer is the run that wrote the file
RunSave(r) ==
    /\ runs[r].pc = "logged"
    /\ LET files == Range(FilesToSave(runs[r].logger))
       IN  disk' = [disk EXCEPT ![runs[r].run_dir] =
                       [f \in DOMAIN @ \cup files |->
                           IF f \in files
                           THEN [writer |-> r, content |-> FileContent(runs[r], f)]
                           ELSE @[f]]]
    /\ runs' = [runs EXCEPT ![r].pc = "returned",
                            ![r].logger = save(runs[r].logger, TRUE).logger]
    /\ UNCHANGED <<pc, env, fault_budget, time_vars, calls, round_vars, responses_vars,
                   eval_vars, count_vars, final_answer, logger, trace>>

\* the wall clock advances
ClockTick ==
    /\ clock < MaxClock
    /\ clock' = clock + 1
    /\ UNCHANGED <<pc, env, fault_budget, latency, recording, completion, calls,
                   round_vars, responses_vars, eval_vars, count_vars, final_answer,
                   logger, trace, fleet_vars>>

NextRuns ==
    \/ \E r \in RunIds : RunStart(r)
    \/ \E r \in RunIds : RunPipeline(r)
    \/ \E r \in RunIds : RunSave(r)
    \/ ClockTick

SpecRuns == InitRuns /\ [][NextRuns]_vars

\* the latency of the slowest call and the sum of the latencies of a dispatch
SlowestLatency ==
    CHOOSE l \in {latency[m] : m \in Models} : \A m \in Models : latency[m] <= l
SumOfLatencies ==
    latency[INITIAL_MODELS[1]] + latency[INITIAL_MODELS[2]] + latency[INITIAL_MODELS[3]]

\* C11: from the moment the dispatch starts, the calls of all N models are in
\* flight together (none starts later than the dispatch), and the dispatch
\* returns when the slowest call has settled: its latency is the largest of the
\* call latencies, not their sum.
C11_DispatchConcurrent ==
    /\ pc = "dispatch_wait" =>
          \A m \in Models : m \in DOMAIN calls /\ calls[m].start = 0
    /\ (pc = "dispatch_wait" /\ clock = 0) =>
          \A m \in Models : calls[m].status = "pending"
    /\ pc = PcCritic(0) => clock = SlowestLatency

\* three distinct latencies: the dispatch has returned after the longest of them
C11_Witness ==
    /\ pc = PcCritic(0)
    /\ latency[INITIAL_MODELS[1]] = 2
    /\ latency[INITIAL_MODELS[2]] = 3
    /\ latency[INITIAL_MODELS[3]] = 1
    /\ clock = 3
    /\ clock < SumOfLatencies

\* the response set of round r
RoundOutput(r) == IF r = 1 THEN debate_responses_1 ELSE debate_responses_2

\* is_agreement answered TRUE for the reply of the model in round r
AgreedIn(r, model) ==
    \E i \in 1..Len(trace.agreed) :
        /\ trace.agreed[i].round = r
        /\ trace.agreed[i].model = model
        /\ trace.agreed[i].value

\* the entry of round r for a model, from the result of the model's own call
RoundEntry(r, model) ==
    LET result == calls[model].result
    IN  IF result.exc THEN "ERROR (exception): " \o result.error
        ELSE IF ~result.ok THEN "ERROR (" \o result.type \o "): " \o result.error
        ELSE IF AgreedIn(r, model) THEN DictGet(RoundPrior(r), model, "")
        ELSE Str(result.content)

\* C12: the response set of a dispatch and of a debate round lists the models
\* in the order of the model list, each with the entry made from its own
\* call's result, whatever the order in which the calls completed.
C12_JoinedInModelOrder ==
    /\ pc = PcCritic(0) =>
          initial_responses =
              [i \in 1..Len(INITIAL_MODELS) |->
                  <<INITIAL_MODELS[i], NormalizeResult(calls[INITIAL_MODELS[i]].result)>>]
    /\ \A r \in 1..2 :
          pc = PcCritic(r) =>
              RoundOutput(r) =
                  [i \in 1..Len(DEBATE_MODELS) |->
                      <<DEBATE_MODELS[i], RoundEntry(r, DEBATE_MODELS[i])>>]

\* a round whose calls completed in the reverse of the model order, with three
\* different entries
C12_Witness ==
    /\ pc = PcCritic(1)
    /\ completion = <<DEBATE_MODELS[3], DEBATE_MODELS[2], DEBATE_MODELS[1]>>
    /\ debate_responses_1 =
          << <<DEBATE_MODELS[1], AnswerText(1)>>,
             <<DEBATE_MODELS[2], "ERROR (timeout): Request timed out after 30 seconds.">>,
             <<DEBATE_MODELS[3], AnswerText(0)>> >>

-----------------------------------------------------------------------------
(* What evaluate_differences was given and what it returned, pass by pass *)

PassEval(n) == IF n = 0 THEN critic_eval_0 ELSE critic_eval_1

\* the critic call of pass n has settled
CriticCalled(n) == n < Len(results)

\* the critic call of pass n failed with a typed failure, or its text is not an
\* evaluation
Unusable(result) ==
    /\ ~result.exc
    /\ \/ ~result.ok
       \/ result.content.form \in {"invalid", "none"}

\* the critic call of pass n answered with text that parses as an evaluation
Parsed(n) ==
    /\ CriticCalled(n)
    /\ results[n + 1].ok
    /\ results[n + 1].content.form \in {"json", "fenced"}

\* the evaluation the analysis of pass n wrote, and those of its discrepancies
\* that some model misses
Reply(n) == results[n + 1].content.value
Survivors(n) ==
    SelectSeq(Reply(n).discrepancies, LAMBDA d : Len(d.models_missing_claim) > 0)

\* a discrepancy without its claim_id
Unlabelled(d) == <<d.claim, d.models_with_claim, d.models_missing_claim>>

\* C13: when the critic call fails with a typed failure, or its output cannot
\* be parsed as an evaluation, evaluate_differences returns consensus_reached =
\* true with no discrepancy, and does not raise.
C13_UnusableCriticMeansConsensus ==
    \A n \in 0..1 :
        (CriticCalled(n) /\ Unusable(results[n + 1])) =>
            /\ pc # "raised"
            /\ PassEval(n) = CriticEvaluation(TRUE, <<>>)

\* C14: the returned evaluation holds exactly the discrepancies of the reply
\* whose models_missing_claim is non-empty, in the reply's order; post-processing
\* it again changes nothing; and when no discrepancy of the reply survives,
\* consensus_reached is true.
C14_FilterKeepsMissed ==
    \A n \in 0..1 :
        Parsed(n) =>
            LET ev == PassEval(n)
            IN  /\ IsSet(ev)
                /\ [i \in 1..Len(ev.discrepancies) |-> Unlabelled(ev.discrepancies[i])]
                     = [i \in 1..Len(Survivors(n)) |-> Unlabelled(Survivors(n)[i])]
                /\ \A i \in 1..Len(ev.discrepancies) :
                      ev.discrepancies[i].models_missing_claim # <<>>
                /\ PostProcess(ev) = ev
                /\ Survivors(n) = <<>> => ev.consensus_reached

\* a reply with a universally held claim in front of a real discrepancy, and a
\* second reply with the universally held claim only
C14_Witness ==
    /\ pc = "evaluated"
    /\ Parsed(0)
    /\ Len(Reply(0).discrepancies) = 2
    /\ Reply(0).discrepancies[1] = UniversalClaim
    /\ Len(critic_eval_0.discrepancies) = 1
    /\ Parsed(1)
    /\ Reply(1) = CriticEvaluation(FALSE, <<UniversalClaim>>)
    /\ critic_eval_1 = CriticEvaluation(TRUE, <<>>)

\* the claim_id of the i-th discrepancy of pass n was derived, not supplied
Derived(n, i) ==
    /\ Parsed(n)
    /\ i \in 1..Len(Survivors(n))
    /\ i \in 1..Len(PassEval(n).discrepancies)
    /\ Falsy(Survivors(n)[i].claim_id)

C16_ClaimIdsUnique ==
    \A n \in 0..1 :
        IsSet(PassEval(n)) =>
            \A i, j \in 1..Len(PassEval(n).discrepancies) :
                i # j => PassEval(n).discrepancies[i].claim_id
                             # PassEval(n).discrepancies[j].claim_id

\* C17: in every discrepancy of a returned evaluation, no model is in both
\* models_with_claim and models_missing_claim.
C17_WithAndMissingDisjoint ==
    \A n \in 0..1 :
        IsSet(PassEval(n)) =>
            \A i \in 1..Len(PassEval(n).discrepancies) :
                Range(PassEval(n).discrepancies[i].models_with_claim)
                    \cap Range(PassEval(n).discrepancies[i].models_missing_claim) = {}

\* C18: in every discrepancy of a returned evaluation, models_with_claim is a
\* non-empty proper subset of the models of the evaluated response set and
\* models_missing_claim is its non-empty complement.
C18_WithAndMissingPartition ==
    \A n \in 0..1 :
        IsSet(PassEval(n)) =>
            \A i \in 1..Len(PassEval(n).discrepancies) :
                LET holders == Range(PassEval(n).discrepancies[i].models_with_claim)
                    missing == Range(PassEval(n).discrepancies[i].models_missing_claim)
                    evaluated == Range(DictKeys(initial_responses))
                IN  /\ holders # {}
                    /\ holders \subseteq evaluated
                    /\ holders # evaluated
                    /\ missing = evaluated \ holders

\* C19: when round r has returned, the entry of a model whose reply succeeded
\* is its entry in the round's input response set if is_agreement answered true
\* for the reply, and the reply text otherwise; the input of round 1 is the
\* initial response set and the input of round 2 is round 1's output, so a
\* model folded in both rounds carries its initial answer.
C19_AgreementFolding ==
    /\ \A r \in 1..2 :
          pc = PcCritic(r) =>
              LET prior == IF r = 1 THEN initial_responses ELSE debate_responses_1
              IN  /\ trace.rounds[r].prior = prior
                  /\ \A i \in 1..Len(DEBATE_MODELS) :
                        results[i].ok =>
                            RoundOutput(r)[i] =
                                <<DEBATE_MODELS[i],
                                  IF AgreedIn(r, DEBATE_MODELS[i])
                                  THEN DictGet(prior, DEBATE_MODELS[i], "")
                                  ELSE Str(results[i].content)>>
    /\ debate_responses_2 # <<>> =>
          \A m \in Range(DEBATE_MODELS) :
              (AgreedIn(1, m) /\ AgreedIn(2, m)) =>
                  DictGet(debate_responses_2, m, "") = DictGet(initial_responses, m, "")

\* after round 2: one model folded in both rounds, one in neither, one in round 2 only
C19_Witness ==
    /\ pc = PcCritic(2)
    /\ AgreedIn(1, DEBATE_MODELS[1]) /\ AgreedIn(2, DEBATE_MODELS[1])
    /\ ~AgreedIn(1, DEBATE_MODELS[2]) /\ ~AgreedIn(2, DEBATE_MODELS[2])
    /\ ~AgreedIn(1, DEBATE_MODELS[3]) /\ AgreedIn(2, DEBATE_MODELS[3])
    /\ debate_responses_2 =
          << <<DEBATE_MODELS[1], AnswerText(0)>>,
             <<DEBATE_MODELS[2], AnswerText(2)>>,
             <<DEBATE_MODELS[3], AnswerText(1)>> >>

\* C20: whatever the outcomes of the re-prompt calls and of the agreement
\* checks, a debate round that has started returns: no exception leaves it, and
\* the response set it returns has the keys of its input response set, with a
\* normalised "ERROR (<kind>): <message>" entry for each model whose call failed.
C20_RoundIsolatesFailures ==
    /\ pc = "raised" => trace.rounds = <<>>
    /\ \A r \in 1..2 :
          pc = PcCritic(r) =>
              /\ DictKeys(RoundOutput(r)) = DictKeys(RoundPrior(r))
              /\ \A i \in 1..Len(DEBATE_MODELS) :
                    /\ results[i].exc =>
                          RoundOutput(r)[i][2] = "ERROR (exception): " \o results[i].error
                    /\ (~results[i].exc /\ ~results[i].ok) =>
                          RoundOutput(r)[i][2] =
                              "ERROR (" \o results[i].type \o "): " \o results[i].error

\* the gate that decided last, and the synthesis mode its route stands for
LastGate ==
    CHOOSE n \in 0..2 :
        /\ logger.gate_decision[n].logged
        /\ \A k \in (n + 1)..2 : ~logger.gate_decision[k].logged
RouteMode(route) ==
    IF route \in {"fast_path_consensus", "consensus_after_debate_1",
                  "consensus_after_debate_2"}
    THEN "consensus" ELSE "divergence"

\* the generation call of the synthesis has failed with a typed failure
GenerationFailed ==
    /\ Len(trace.generation) = 1
    /\ ~trace.generation[1].exc
    /\ ~trace.generation[1].ok

\* C21: when the generation call of the synthesizer fails (in either mode), the
\* final answer is the normalised error string of that failure, the synthesis
\* recorded is that answer under the mode the last gate chose, and the run
\* returns; only a run record that cannot be written keeps it from returning.
C21_SynthesisFailureIsAnswer ==
    GenerationFailed =>
        /\ final_answer = "ERROR (" \o trace.generation[1].type \o "): "
                               \o trace.generation[1].error
        /\ logger.final_synthesis =
              [logged |-> TRUE,
               mode |-> RouteMode(logger.gate_decision[LastGate].route),
               answer |-> final_answer]
        /\ trace.synth[1].mode = logger.final_synthesis.mode
        /\ pc = "returned" \/ (pc = "raised" /\ logger.saves = 0)

\* a divergence synthesis after round 2 whose generation call got an HTTP error
C21_Witness ==
    /\ pc = "returned"
    /\ GenerationFailed
    /\ trace.generation[1].type = "http_error"
    /\ logger.gate_decision[2].route = "final_divergence"
    /\ logger.final_synthesis.mode = "divergence"
    /\ final_answer = "ERROR (http_error): HTTP 500: upstream"

\* C22: fetch_llm_response never raises: every call ends with {ok: true,
\* content} or with {ok: false, type, error}, type being one of timeout,
\* http_error, request_error, parse_error, after exactly one POST.
C22_GatewayNeverRaises ==
    /\ pc # "raised"
    /\ pc = "fetched" =>
          \A m \in DOMAIN calls :
              /\ calls[m].status = "settled"
              /\ ~calls[m].result.exc
              /\ ~calls[m].result.ok =>
                    calls[m].result.type \in
                        {"timeout", "http_error", "request_error", "parse_error"}
              /\ trace.gateway = 1

\* C23: two runs executing concurrently share no mutable state: the run record
\* of a run that has saved holds the files that run wrote, with what it logged,
\* and nothing written by the other run, also when both started in one second.
C23_RunsShareNothing ==
    \A r \in RunIds :
        runs[r].pc = "returned" =>
            /\ \A f \in DOMAIN disk[runs[r].run_dir] :
                  disk[runs[r].run_dir][f].writer = r
            /\ disk[runs[r].run_dir]["flow.json"].content = FlowData(runs[r])

\* C24: when the terminal synthesis is recorded, the run record holds a gate
\* decision (route and reason) for exactly the evaluation passes that ran, one
\* synthesizer was invoked and the recorded mode is the mode of that one, and
\* the route of the last recorded gate is a terminal route of that mode.
C24_RunRecordComplete ==
    logger.final_synthesis.logged =>
        LET ran(k) == <<critic_eval_0, critic_eval_1, critic_eval_2>>[k + 1] # NoEval
            last == logger.gate_decision[LastGate].route
        IN  /\ \A k \in 0..2 :
                  /\ logger.gate_decision[k].logged <=> ran(k)
                  /\ logger.critic_pass[k].logged <=> ran(k)
                  /\ ran(k) => /\ logger.gate_decision[k].route # ""
                               /\ logger.gate_decision[k].reason # ""
            /\ Len(trace.synth) = 1
            /\ logger.final_synthesis.mode = trace.synth[1].mode
            /\ logger.final_synthesis_data = logger.final_synthesis
            /\ logger.final_synthesis.mode = "consensus" <=>
                  last \in {"fast_path_consensus", "consensus_after_debate_1",
                            "consensus_after_debate_2"}
            /\ logger.final_synthesis.mode = "divergence" <=>
                  last \in {"circuit_breaker_triggered", "final_divergence"}

C24_Witness ==
    /\ pc = "returned"
    /\ logger.final_synthesis.mode = "divergence"
    /\ logger.gate_decision[2].route = "final_divergence"
    /\ logger.gate_decision[1].route = "proceed_to_debate_2"

\* C25: the resolved claims recorded for pass 1 are exactly the claims of the
\* discrepancies of pass 0 whose claim_id does not occur among the discrepancies
\* of pass 1: a discrepancy that persists under its claim_id, reworded or not,
\* is not recorded as resolved.
C25_ResolvedByClaimId ==
    logger.critic_pass[1].logged =>
        LET ids == {critic_eval_1.discrepancies[i].claim_id :
                       i \in 1..Len(critic_eval_1.discrepancies)}
            gone == {i \in 1..Len(critic_eval_0.discrepancies) :
                       critic_eval_0.discrepancies[i].claim_id \notin ids}
        IN  Range(logger.critic_pass[1].resolved_claims)
                = {critic_eval_0.discrepancies[i].claim : i \in gone}

\* C26: the steps of a run are strictly sequential.  They occur in the order
\* dispatch, pass 0, gate 0, round 1, pass 1, gate 1, round 2, pass 2, gate 2,
\* synthesis; pass n >= 1 starts only when every re-prompt of round n has
\* settled and every successful reply has had its agreement check; a gate
\* decides only on a completed pass; round n + 1 starts only after gate n
\* chose to continue; pass n >= 1 is given the evaluation of pass n - 1.
C26_StepsSequential ==
    LET order == <<"start", "dispatch", PcCritic(0), PcGate(0), PcDebate(1), PcCritic(1),
                   PcGate(1), PcDebate(2), PcCritic(2), PcGate(2), "synthesis",
                   "log_final_synthesis", "save">>
        rank(e) == CHOOSE k \in 1..Len(order) : order[k] = e
        steps == SelectSeq(trace.events, LAMBDA e : e # "is_agreement")
        evaluation(k) == <<critic_eval_0, critic_eval_1, critic_eval_2>>[k + 1]
    IN  /\ \A i \in 1..(Len(steps) - 1) : rank(steps[i]) < rank(steps[i + 1])
        /\ \A n \in 1..2 :
              pc = PcCritic(n) =>
                  /\ DOMAIN calls = Models
                  /\ \A m \in Models : calls[m].status = "settled"
                  /\ \A i \in 1..Len(DEBATE_MODELS) :
                        LET result == calls[DEBATE_MODELS[i]].result
                        IN  /\ RoundOutput(n)[i][1] = DEBATE_MODELS[i]
                            /\ (~result.exc /\ result.ok) =>
                                  \E a \in 1..Len(trace.agreed) :
                                      /\ trace.agreed[a].round = n
                                      /\ trace.agreed[a].model = DEBATE_MODELS[i]
        /\ \A k \in 0..2 :
              (pc = PcGate(k) \/ logger.gate_decision[k].logged) =>
                  /\ evaluation(k) # NoEval
                  /\ logger.critic_pass[k].logged
                  /\ Len(trace.evals) >= k + 1
        /\ \A r \in 1..2 :
              Rounds >= r =>
                  logger.gate_decision[r - 1].route = "proceed_to_debate_" \o ToString(r)
        /\ \A i \in 1..Len(trace.evals) :
              /\ trace.evals[i].pass_num = i - 1
              /\ trace.evals[i].previous_eval
                    = IF i = 1 THEN NoEval ELSE evaluation(i - 2)

C26_Witness ==
    /\ Len(trace.evals) = 3
    /\ critic_eval_2 # NoEval
    /\ \E a \in 1..Len(trace.agreed) : trace.agreed[a].round = 2
    /\ \E m \in Models : ~calls[m].result.ok

\* C27: no step modifies a value an earlier step produced.  A response set and
\* an evaluation, once assigned, are left as they are by every later step, and
\* the values a debate round, an evaluation pass and a synthesizer were called
\* with are still the values of the response sets and evaluations they name.
C27_EarlierValuesKept ==
    /\ [][ /\ initial_responses # <<>> => initial_responses' = initial_responses
           /\ debate_responses_1 # <<>> => debate_responses_1' = debate_responses_1
           /\ debate_responses_2 # <<>> => debate_responses_2' = debate_responses_2
           /\ critic_eval_0 # NoEval => critic_eval_0' = critic_eval_0
           /\ critic_eval_1 # NoEval => critic_eval_1' = critic_eval_1
           /\ critic_eval_2 # NoEval => critic_eval_2' = critic_eval_2 ]_vars
    /\ [](/\ \A i \in 1..Len(trace.rounds) :
                /\ trace.rounds[i].prior = RoundPrior(trace.rounds[i].round)
                /\ trace.rounds[i].critic_eval = RoundEval(trace.rounds[i].round)
          /\ \A i \in 1..Len(trace.evals) :
                /\ trace.evals[i].responses = PassResponses(i - 1)
                /\ trace.evals[i].previous_eval = PassPrevious(i - 1)
          /\ \A i \in 1..Len(trace.synth) :
                /\ trace.synth[i].responses = LatestResponses
                /\ trace.synth[i].evaluation \in {NoEval, LatestEval})

C27_Witness ==
    /\ pc = "returned"
    /\ debate_responses_2 # <<>>
    /\ debate_responses_2 # debate_responses_1
    /\ debate_responses_1 # initial_responses
    /\ critic_eval_2 # NoEval
    /\ critic_eval_2 # critic_eval_1

\* C28: in a debate round the missed claims of a model are the claims of the
\* discrepancies whose models_missing_claim contains it, in the order of the
\* evaluation; the model gets the re-confirm-or-refine re-prompt exactly when
\* there is none, and otherwise the re-prompt that restates its own prior
\* answer with exactly those claims.
C28_MissedClaimsPrompt ==
    pc = PcDebateWait(1) =>
        \A i \in 1..Len(DEBATE_MODELS) :
            LET model == DEBATE_MODELS[i]
                discs == critic_eval_0.discrepancies
                missing == {k \in 1..Len(discs) :
                               \E j \in 1..Len(discs[k].models_missing_claim) :
                                   discs[k].models_missing_claim[j] = model}
                nth(n) == CHOOSE k \in missing :
                              Cardinality({j \in missing : j <= k}) = n
                prompt == calls[model].prompt
            IN  /\ prompt.template = "confirm_or_refine" <=> missing = {}
                /\ prompt.template = "missed_claims" <=> missing # {}
                /\ prompt.initial_response = initial_responses[i][2]
                /\ Len(prompt.claims) = Cardinality(missing)
                /\ \A n \in 1..Len(prompt.claims) : prompt.claims[n] = discs[nth(n)].claim

C28_Witness ==
    /\ pc = PcDebateWait(1)
    /\ Len(calls[DEBATE_MODELS[1]].prompt.claims) = 2
    /\ calls[DEBATE_MODELS[1]].prompt.claims[1] # calls[DEBATE_MODELS[1]].prompt.claims[2]
    /\ calls[DEBATE_MODELS[2]].prompt.template = "confirm_or_refine"
    /\ Len(critic_eval_0.discrepancies) = 2

\* C29: the divergence synthesizer is always handed a non-empty list of
\* discrepancies, through the circuit breaker of Gate 1 as through the final
\* divergence of Gate 2, and debate round 1 starts only with initial_count >= 1.
C29_DivergenceHasDiscrepancies ==
    /\ \A i \in 1..Len(trace.synth) :
          trace.synth[i].mode = "divergence" =>
              /\ trace.synth[i].evaluation # NoEval
              /\ Len(trace.synth[i].evaluation.discrepancies) >= 1
    /\ pc \in {"synth_1d", "synth_2d"} => Len(LatestEval.discrepancies) >= 1
    /\ (pc = PcDebate(1) \/ Len(trace.rounds) >= 1) => initial_count >= 1

C29_Witness ==
    /\ pc = "returned"
    /\ trace.synth[1].mode = "divergence"
    /\ Len(trace.synth[1].evaluation.discrepancies) > initial_count
    /\ Len(trace.rounds) = 1

\* C30: when the evaluation of pass 0 has exactly one discrepancy, debate round
\* 2 never runs: Gate 1 routes to the consensus synthesis or to the circuit
\* breaker, and the run that went through round 1 ends in consensus mode or,
\* by the circuit breaker, in divergence mode.
C30_OneDiscrepancyNoSecondRound ==
    (critic_eval_0 # NoEval /\ Len(critic_eval_0.discrepancies) = 1) =>
        /\ Len(trace.rounds) <= 1
        /\ pc \notin {PcDebate(2), PcDebateWait(2), PcDebateLoop(2), PcCritic(2), PcGate(2),
                      "synth_2c", "synth_2d"}
        /\ debate_responses_2 = <<>>
        /\ critic_eval_2 = NoEval
        /\ logger.gate_decision[1].logged =>
              logger.gate_decision[1].route
                  \in {"consensus_after_debate_1", "circuit_breaker_triggered"}
        /\ (pc = "returned" /\ Len(trace.rounds) = 1) =>
              \/ /\ logger.final_synthesis.mode = "consensus"
                 /\ critic_eval_1.consensus_reached
              \/ /\ logger.final_synthesis.mode = "divergence"
                 /\ logger.gate_decision[1].route = "circuit_breaker_triggered"

C30_Witness ==
    /\ pc = "returned"
    /\ Len(critic_eval_0.discrepancies) = 1
    /\ ~critic_eval_0.consensus_reached
    /\ Len(critic_eval_1.discrepancies) = 1
    /\ ~critic_eval_1.consensus_reached
    /\ logger.final_synthesis.mode = "divergence"

\* C31: on every run that returns, one synthesizer was invoked, once; its call
\* is the last call of the run that goes to the Gateway; the terminal
\* synthesis is recorded once, after it; the run record is saved once, after
\* the recording, and the answer returned is the one recorded.
C31_OneSynthesisThenSave ==
    pc = "returned" =>
        LET n == Len(trace.events)
            times(e) == Cardinality({i \in 1..n : trace.events[i] = e})
        IN  /\ Len(trace.synth) = 1
            /\ Len(trace.generation) = 1
            /\ trace.synth[1].mode \in {"consensus", "divergence"}
            /\ n >= 3
            /\ SubSeq(trace.events, n - 2, n) = <<"synthesis", "log_final_synthesis", "save">>
            /\ times("synthesis") = 1
            /\ times("log_final_synthesis") = 1
            /\ times("save") = 1
            /\ logger.saves = 1
            /\ logger.files # <<>>
            /\ logger.final_synthesis =
                  [logged |-> TRUE, mode |-> trace.synth[1].mode, answer |-> final_answer]

C31_Witness ==
    /\ pc = "returned"
    /\ Len(trace.rounds) = 2
    /\ trace.synth[1].mode = "consensus"
    /\ trace.gateway > 12

\* C32: the Gateway calls of one run are bounded: 3 for the dispatch, 1 for
\* each evaluation pass, 3 for each debate round, 1 for each agreement check
\* and 1 for the synthesis.  A run that takes the fast path issues exactly 5,
\* no run issues more than 19, and an agreement check is issued only for a
\* re-prompt that succeeded, so at most 3 in a round.
C32_GatewayCallsBounded ==
    LET n == Len(trace.events)
        times(e) == Cardinality({i \in 1..n : trace.events[i] = e})
        round == IF trace.rounds = <<>> THEN 0 ELSE trace.rounds[Len(trace.rounds)].round
    IN  /\ trace.gateway <= 19
        /\ trace.gateway = Len(INITIAL_MODELS) * times("dispatch") + Len(trace.evals)
                             + Len(DEBATE_MODELS) * Len(trace.rounds)
                             + times("is_agreement") + Len(trace.synth)
        /\ times("is_agreement") <= Len(DEBATE_MODELS) * Len(trace.rounds)
        /\ (logger.gate_decision[0].route = "fast_path_consensus" /\ trace.synth # <<>>) =>
              trace.gateway = 5
        /\ \A a \in 1..Len(trace.agreed) :
              trace.agreed[a].round = round =>
                  /\ ~calls[trace.agreed[a].model].result.exc
                  /\ calls[trace.agreed[a].model].result.ok
        /\ \A r \in 1..2 :
              Cardinality({a \in 1..Len(trace.agreed) : trace.agreed[a].round = r})
                  <= Len(DEBATE_MODELS)

C32_Witness ==
    /\ pc = "returned"
    /\ trace.gateway = 19

\* C33: when the classification call of an agreement check ends with a typed
\* failure, or answers something other than "true", the reply is not taken for
\* a trivial agreement: the round goes on and the entry of the model is its new
\* reply, never its prior answer.
C33_ClassifierFailureKeepsReply ==
    "is_agreement" \in DOMAIN calls =>
        LET answer == calls["is_agreement"].result
            says_true == /\ answer.ok
                         /\ answer.content \in {<<"t", "r", "u", "e">>,
                                                 <<" ", "T", "R", "U", "E", "\n">>}
        IN  (~answer.exc /\ ~says_true) =>
                /\ pc # "raised"
                /\ idx >= 2
                /\ output[idx - 1] = <<DEBATE_MODELS[idx - 1], AnswerText(1)>>

\* C34: the re-prompts of a round are all started together, before any of them
\* settles, and they settle in any order; an agreement check is issued only
\* when every re-prompt of the round has settled, one check per step, for the
\* model at the loop's position, after the entries of all the models before it
\* have been written, so the checks of a round follow the order of the models.
C34_ChecksAfterAllReprompts ==
    /\ [][ \A r \in 1..2 :
              (pc = PcDebate(r) /\ pc' = PcDebateWait(r)) =>
                  /\ DOMAIN calls' = Range(DEBATE_MODELS)
                  /\ \A m \in DOMAIN calls' : /\ calls'[m].status = "pending"
                                               /\ calls'[m].start = clock ]_vars
    /\ [][ Len(trace'.events) > Len(trace.events)
              /\ trace'.events[Len(trace'.events)] = "is_agreement" =>
                  /\ pc \in {PcDebateLoop(1), PcDebateLoop(2)}
                  /\ GatherDone(calls)
                  /\ DOMAIN calls = Range(DEBATE_MODELS)
                  /\ calls' = calls
                  /\ Len(trace'.events) = Len(trace.events) + 1
                  /\ trace'.gateway = trace.gateway + 1
                  /\ Len(output) = idx - 1
                  /\ \A i \in 1..Len(output) : output[i][1] = DEBATE_MODELS[i]
                  /\ \/ pc' = "raised"
                     \/ /\ idx' = idx + 1
                        /\ Len(trace'.agreed) = Len(trace.agreed) + 1
                        /\ trace'.agreed[Len(trace'.agreed)].model = DEBATE_MODELS[idx] ]_vars
    /\ [](\A a, b \in 1..Len(trace.agreed) :
              (a < b /\ trace.agreed[a].round = trace.agreed[b].round) =>
                  \E i, j \in 1..Len(DEBATE_MODELS) :
                      /\ i < j
                      /\ trace.agreed[a].model = DEBATE_MODELS[i]
                      /\ trace.agreed[b].model = DEBATE_MODELS[j])

C34_Witness ==
    /\ pc = PcDebateLoop(1)
    /\ idx = 3
    /\ Len(trace.agreed) = 2
    /\ Len(completion) = Len(DEBATE_MODELS)
    /\ completion[1] = DEBATE_MODELS[3]
    /\ completion[3] = DEBATE_MODELS[1]

====
